---- MODULE Spec2Model ----
(***************************************************************************)
(* A model of the analysis core of constrite:                              *)
(*   - utils/gemini_vision.py: ConstructionSafetyAnalyzer.analyze_image    *)
(*     (the retry loop) and _parse_response (fence strip, parse, repair),  *)
(*   - utils/risk_scoring.py: calculate_risk_score, prioritize_actions,    *)
(*     calculate_financial_impact (with parse_rupee) and                   *)
(*     generate_safety_report,                                             *)
(*   - utils/bis_standards.py: BISDatabase (construction, loading of the   *)
(*     catalog, the queries; the first calls made by several threads),     *)
(*   - app.py: json.dumps(result, indent=2) of an analysis record, and the *)
(*     scoring of the record analyze_image returned.                       *)
(*                                                                         *)
(* Spec is the program called from one thread, one call at a time.         *)
(* FairSpec adds that the steps of analyze_image are taken, CancelSpec a   *)
(* cancellation that arrives during a wait of analyze_image, ThreadSpec    *)
(* is the first access to BISDatabase() by several threads.                *)
(*                                                                         *)
(* A Python str the code searches, slices or concatenates is a sequence of *)
(* lexemes (a lexeme is one or more characters that the code never         *)
(* splits); a Python dict is a function whose domain is the set of its     *)
(* keys.  Python floats are modelled by exact rationals num/den.  In       *)
(* calculate_risk_score the values the model draws are ones on which IEEE  *)
(* double arithmetic gives the exact result; in calculate_financial_impact *)
(* an amount is the exact decimal value of its numeral, of which the       *)
(* double the code computes is the rounding.                               *)
(***************************************************************************)
EXTENDS Integers, Sequences, FiniteSets, TLC

VARIABLES
    op,          \* the operation called last, "none" before the first call
    rrec,        \* utils/risk_scoring.py: the analysis_result passed in
    rout,        \* calculate_risk_score: the dict returned
    plan,        \* prioritize_actions: the list returned
    fin,         \* calculate_financial_impact: how the call ended
    report,      \* generate_safety_report: the dict returned
    calls,       \* the functions called on rrec so far, in order
    source,      \* BISDatabase: the file config/bis_codes.json
    _instance,   \* BISDatabase._instance is set
    _standards,  \* BISDatabase: the list self._standards
    _standards_dict, \* BISDatabase: the dict self._standards_dict
    cout,        \* BISDatabase(): how the last call ended
    query,       \* BISDatabase: the last query and what the caller holds of it
    ptext,       \* _parse_response: response_text
    pout,        \* _parse_response: how the call ended (returned dict or raised)
    pagain,      \* _parse_response called on json.dumps of the dict it returned
    pc,          \* analyze_image: position in the retry loop
    max_retries, \* analyze_image: the max_retries argument
    attempt,     \* analyze_image: the loop variable of range(max_retries)
    requests,    \* analyze_image: calls of model.generate_content so far
    sleeps,      \* analyze_image: the time.sleep waits so far, in order
    outcomes,    \* analyze_image: what each attempt met, in order
    aout,        \* analyze_image: how the call ended
    cancel,      \* analyze_image: the cancellation that arrived during a wait
    threads,     \* BISDatabase() called by threads: each thread's position
    instances,   \* the BISDatabase objects created so far
    cls_instance, \* the class attribute BISDatabase._instance (0 for None)
    loads        \* the calls of _load_standards so far

vars == <<op, rrec, rout, plan, fin, report, calls, source, _instance,
          _standards, _standards_dict, cout, query, ptext, pout, pagain, pc,
          max_retries, attempt, requests, sleeps, outcomes, aout, cancel,
          threads, instances, cls_instance, loads>>

riskVars == <<rrec, rout>>
scoringVars == <<plan, fin, report, calls>>
threadVars == <<threads, instances, cls_instance, loads>>
catalogVars == <<source, _instance, _standards, _standards_dict, cout, query,
                 threadVars>>
parseVars == <<ptext, pout, pagain>>
analyzeVars == <<pc, max_retries, attempt, requests, sleeps, outcomes, aout, cancel>>

-----------------------------------------------------------------------------
(* Bounds of the model.                                                    *)

MaxCrit == 3        \* critical violations in a record
MaxWarn == 2        \* warnings in a record
MaxBody == 3        \* lexemes in the body of a response text
MaxRetriesBound == 3 \* largest max_retries tried (the default is 3)
MaxAmount == 3      \* lexemes in an amount string
MaxItems == 2       \* records in the catalog file

-----------------------------------------------------------------------------
(* Python helpers.                                                         *)

\* dict.get(key, default)
Get(d, key, default) == IF key \in DOMAIN d THEN d[key] ELSE default

\* int(x) of the float num/den (den > 0): truncation toward zero
IntTrunc(num, den) ==
    IF num >= 0 THEN num \div den ELSE -((-num) \div den)

\* min(a, b)
Min(a, b) == IF a <= b THEN a ELSE b

\* The empty dict
EmptyDict == [k \in {} |-> 0]

\* d with d[key] = value (added or overwritten)
DictSet(d, key, value) ==
    [k \in DOMAIN d \cup {key} |-> IF k = key THEN value ELSE d[k]]

-----------------------------------------------------------------------------
(* utils/risk_scoring.py: calculate_risk_score                             *)

\* The points of the warnings loop (lines 34-39)
RECURSIVE WarningPoints(_)
WarningPoints(warnings) ==
    IF warnings = <<>> THEN 0
    ELSE LET risk_level == Get(Head(warnings), "risk_level", "MEDIUM")
             points == IF risk_level = "HIGH" THEN 10
                       ELSE IF risk_level = "MEDIUM" THEN 5
                       ELSE 0
         IN  points + WarningPoints(Tail(warnings))

\* The float risk_score before the cap (lines 30-52), as the rational
\* num/den with den > 0:
\*   base * (1 + (100 - compliance_score)/100) + (non_compliant/total) * 15
RawScore(analysis_result) ==
    LET critical_violations == Get(analysis_result, "critical_violations", <<>>)
        warnings == Get(analysis_result, "warnings", <<>>)
        compliance_score == Get(analysis_result, "overall_compliance_score", 100)
        total_workers == Get(analysis_result, "total_workers", 0)
        non_compliant_workers == Get(analysis_result, "workers_non_compliant", 0)
        base == Len(critical_violations) * 20 + WarningPoints(warnings)
    IN  IF total_workers > 0
        THEN [num |-> base * (200 - compliance_score) * total_workers
                      + 1500 * non_compliant_workers,
              den |-> 100 * total_workers]
        ELSE [num |-> base * (200 - compliance_score), den |-> 100]

\* A mutant of CapScore: the score wraps past 100 where the code caps it.
CapScoreWrap(raw) == IntTrunc(raw.num, raw.den) % 101

\* risk_score = min(int(risk_score), 100) (line 55)
CapScore(raw) == Min(IntTrunc(raw.num, raw.den), 100)

\* A mutant of RiskLevelOf: the thresholds compared with > instead of >=.
RiskLevelOfStrict(risk_score) ==
    IF risk_score > 75 THEN [risk_level |-> "CRITICAL", action_urgency |-> "IMMEDIATE"]
    ELSE IF risk_score > 50 THEN [risk_level |-> "HIGH", action_urgency |-> "24_HOURS"]
    ELSE IF risk_score > 25 THEN [risk_level |-> "MEDIUM", action_urgency |-> "48_HOURS"]
    ELSE [risk_level |-> "LOW", action_urgency |-> "WEEKLY"]

\* The if/elif chain of lines 58-93
RiskLevelOf(risk_score) ==
    IF risk_score >= 75 THEN [risk_level |-> "CRITICAL", action_urgency |-> "IMMEDIATE"]
    ELSE IF risk_score >= 50 THEN [risk_level |-> "HIGH", action_urgency |-> "24_HOURS"]
    ELSE IF risk_score >= 25 THEN [risk_level |-> "MEDIUM", action_urgency |-> "48_HOURS"]
    ELSE [risk_level |-> "LOW", action_urgency |-> "WEEKLY"]

calculate_risk_score(analysis_result) ==
    LET risk_score == CapScore(RawScore(analysis_result))
        level == RiskLevelOf(risk_score)
    IN  [risk_score |-> risk_score,
         risk_level |-> level.risk_level,
         action_urgency |-> level.action_urgency,
         critical_count |-> Len(Get(analysis_result, "critical_violations", <<>>)),
         warning_count |-> Len(Get(analysis_result, "warnings", <<>>)),
         compliance_percentage |-> Get(analysis_result, "overall_compliance_score", 100)]

-----------------------------------------------------------------------------
(* The records calculate_risk_score is called on.                          *)

\* A critical violation as the prompt asks for it
CriticalViolation == [violation |-> <<"fall risk">>, risk_level |-> "CRITICAL"]

\* The warnings a record may hold: HIGH, MEDIUM, another level, no level
WarningKinds ==
    { [violation |-> <<"w">>, risk_level |-> "HIGH"],
      [violation |-> <<"w">>, risk_level |-> "MEDIUM"],
      [violation |-> <<"w">>, risk_level |-> "LOW"],
      [violation |-> <<"w">>] }

SeqsUpTo(S, n) == UNION { [1..k -> S] : k \in 0..n }

\* overall_compliance_score: inside 0..100 and outside it
ComplianceScores == {-50, 0, 30, 50, 100, 250}
TotalWorkers == {0, 4, 10}
NonCompliantWorkers == {0, 1, 2, 7, 12}

MakeRecord(nCrit, warnings, score, total, nonCompliant) ==
    [total_workers |-> total,
     workers_non_compliant |-> nonCompliant,
     critical_violations |-> [i \in 1..nCrit |-> CriticalViolation],
     warnings |-> warnings,
     overall_compliance_score |-> score]

\* The record of the module's self-test (lines 254-289)
test_analysis ==
    MakeRecord(2, <<[violation |-> <<"w">>, risk_level |-> "HIGH"]>>, 30, 10, 7)

-----------------------------------------------------------------------------
(* utils/gemini_vision.py: the required fields and the default records.    *)

\* required_fields (lines 271-275)
required_fields ==
    <<"total_workers", "workers_compliant", "workers_non_compliant",
      "critical_violations", "warnings", "compliant_items",
      "overall_compliance_score", "risk_assessment", "immediate_actions">>

\* The defaults table of _get_default_value (lines 307-319)
defaults ==
    [total_workers |-> 0,
     workers_compliant |-> 0,
     workers_non_compliant |-> 0,
     critical_violations |-> <<>>,
     warnings |-> <<>>,
     compliant_items |-> <<>>,
     overall_compliance_score |-> 50,
     risk_assessment |-> "MEDIUM",
     immediate_actions |-> << <<"Unable to analyze - please retry">> >>,
     estimated_compliance_cost |-> <<"Rs", "0">>,
     potential_fine_if_inspected |-> <<"Rs", "0">>]

\* A mutant of _get_default_response: the compliance score of the error
\* records (0) in place of 50.
DefaultResponseScoreZero ==
    [total_workers |-> 0,
     workers_compliant |-> 0,
     workers_non_compliant |-> 0,
     critical_violations |-> <<>>,
     warnings |-> << [violation |-> <<"Unable to analyze image completely">>,
                      location |-> "General",
                      bis_code |-> "N/A",
                      risk_level |-> "MEDIUM",
                      recommendation |-> "Please try again with a clearer image"] >>,
     compliant_items |-> <<>>,
     overall_compliance_score |-> 0,
     risk_assessment |-> "MEDIUM",
     immediate_actions |-> << <<"Retry analysis with better image quality">> >>,
     estimated_compliance_cost |-> <<"Rs", "0">>,
     potential_fine_if_inspected |-> <<"Rs", "0">>]

\* _get_default_response (lines 322-342)
_get_default_response ==
    [total_workers |-> 0,
     workers_compliant |-> 0,
     workers_non_compliant |-> 0,
     critical_violations |-> <<>>,
     warnings |-> << [violation |-> <<"Unable to analyze image completely">>,
                      location |-> "General",
                      bis_code |-> "N/A",
                      risk_level |-> "MEDIUM",
                      recommendation |-> "Please try again with a clearer image"] >>,
     compliant_items |-> <<>>,
     overall_compliance_score |-> 50,
     risk_assessment |-> "MEDIUM",
     immediate_actions |-> << <<"Retry analysis with better image quality">> >>,
     estimated_compliance_cost |-> <<"Rs", "0">>,
     potential_fine_if_inspected |-> <<"Rs", "0">>]

-----------------------------------------------------------------------------
(* Lexemes of a response text.                                             *)

LBrace == "{"
RBrace == "}"
Comma == ","
Number == "5"                       \* a JSON number
EmptyList == "[]"                   \* a JSON list
NestedKey == "\"details\":"         \* a key whose value follows it
MemberRisk == "\"risk_assessment\":\"HIGH\""
MemberCost == "\"estimated_compliance_cost\":\"Rs5,000\""
Backtick == "<backtick>"                \* one backtick character
JsonWord == "json"
Space == " "                        \* one blank or line break
Padding == "<50 blanks>"            \* fifty blanks

Whitespace == {Space, Padding}

\* The members json.dumps writes and json.loads reads as one lexeme each:
\* the lexeme, its key, the value it stands for, and its len()
MemberTable ==
    << 
       [lexeme |-> MemberRisk,
        key |-> "risk_assessment", value |-> "HIGH", width |-> 24],
       [lexeme |-> MemberCost,
        key |-> "estimated_compliance_cost", value |-> <<"Rs", "5,000">>, width |-> 37],
       [lexeme |-> "\"risk_assessment\": \"MEDIUM\"",
        key |-> "risk_assessment", value |-> "MEDIUM", width |-> 27],
       [lexeme |-> "\"estimated_compliance_cost\": \"Rs0\"",
        key |-> "estimated_compliance_cost", value |-> <<"Rs", "0">>, width |-> 38],
       [lexeme |-> "\"potential_fine_if_inspected\": \"Rs0\"",
        key |-> "potential_fine_if_inspected", value |-> <<"Rs", "0">>, width |-> 40],
       [lexeme |-> "\"total_workers\": 0",
        key |-> "total_workers", value |-> 0, width |-> 18],
       [lexeme |-> "\"total_workers\": 10",
        key |-> "total_workers", value |-> 10, width |-> 19],
       [lexeme |-> "\"workers_compliant\": 0",
        key |-> "workers_compliant", value |-> 0, width |-> 22],
       [lexeme |-> "\"workers_non_compliant\": 0",
        key |-> "workers_non_compliant", value |-> 0, width |-> 26],
       [lexeme |-> "\"critical_violations\": []",
        key |-> "critical_violations", value |-> <<>>, width |-> 25],
       [lexeme |-> "\"warnings\": []",
        key |-> "warnings", value |-> <<>>, width |-> 14],
       [lexeme |-> "\"warnings\": [{\"violation\": \"Unable to analyze image completely\", ...}]",
        key |-> "warnings", value |-> _get_default_response.warnings, width |-> 190],
       [lexeme |-> "\"compliant_items\": []",
        key |-> "compliant_items", value |-> <<>>, width |-> 21],
       [lexeme |-> "\"overall_compliance_score\": 50",
        key |-> "overall_compliance_score", value |-> 50, width |-> 30],
       [lexeme |-> "\"overall_compliance_score\": 30",
        key |-> "overall_compliance_score", value |-> 30, width |-> 30],
       [lexeme |-> "\"immediate_actions\": [\"Unable to analyze - please retry\"]",
        key |-> "immediate_actions", value |-> defaults.immediate_actions, width |-> 57],
       [lexeme |-> "\"immediate_actions\": [\"Retry analysis with better image quality\"]",
        key |-> "immediate_actions", value |-> _get_default_response.immediate_actions, width |-> 65] >>

\* Whether c is the lexeme of a whole member, and its place in the table
IsMember(c) == \E j \in 1..Len(MemberTable) : MemberTable[j].lexeme = c
MemberOf(c) == MemberTable[CHOOSE j \in 1..Len(MemberTable) : MemberTable[j].lexeme = c]

\* len() of a lexeme, in characters
Width(c) ==
    CASE IsMember(c) -> MemberOf(c).width
      [] c = NestedKey -> 10
      [] c = JsonWord -> 4
      [] c = EmptyList -> 2
      [] c = Padding -> 50
      [] OTHER -> 1

\* len(s)
RECURSIVE CharLen(_)
CharLen(s) == IF s = <<>> THEN 0 ELSE Width(Head(s)) + CharLen(Tail(s))

\* The lexemes a response body is drawn from
BodyLexemes ==
    {LBrace, RBrace, Comma, Number, EmptyList, NestedKey, MemberRisk, MemberCost}

\* What surrounds the body: nothing, blanks, an opening ```json fence alone
\* (a fenced response cut short), a ```json fence, a bare ``` fence
Wrappers ==
    { <<<<>>, <<>>>>,
      <<<<Space>>, <<Space>>>>,
      <<<<Backtick, Backtick, Backtick, JsonWord, Space>>, <<>>>>,
      <<<<Backtick, Backtick, Backtick, JsonWord, Space>>,
        <<Space, Backtick, Backtick, Backtick>>>>,
      <<<<Backtick, Backtick, Backtick, Space>>,
        <<Space, Backtick, Backtick, Backtick>>>> }

Bodies == SeqsUpTo(BodyLexemes, MaxBody)

-----------------------------------------------------------------------------
(* Python str methods, on sequences of lexemes.                            *)

Drop(s, n) == SubSeq(s, n + 1, Len(s))
DropLast(s, n) == SubSeq(s, 1, Len(s) - n)

\* s.startswith(p), s.endswith(p)
StartsWith(s, p) == Len(s) >= Len(p) /\ SubSeq(s, 1, Len(p)) = p
EndsWith(s, p) == Len(s) >= Len(p) /\ SubSeq(s, Len(s) - Len(p) + 1, Len(s)) = p

\* s.strip(chars): the lexemes of `chars` removed from both ends
RECURSIVE LStrip(_, _)
LStrip(s, chars) ==
    IF s # <<>> /\ Head(s) \in chars THEN LStrip(Tail(s), chars) ELSE s

RECURSIVE RStrip(_, _)
RStrip(s, chars) ==
    IF s # <<>> /\ s[Len(s)] \in chars THEN RStrip(DropLast(s, 1), chars) ELSE s

Strip(s, chars) == RStrip(LStrip(s, chars), chars)

\* s.count(c)
Count(s, c) == Cardinality({i \in 1..Len(s) : s[i] = c})

\* c * n
Repeat(c, n) == [i \in 1..n |-> c]

-----------------------------------------------------------------------------
(* json.loads, on sequences of lexemes.  A parse gives                     *)
(*   [ok, pos, kind, dict]: ok is FALSE for a JSONDecodeError; pos is the  *)
(*   place after the value; kind is "number", "list" or "object"; dict is  *)
(*   the object parsed (a later duplicate key overwrites an earlier one).  *)

ParseError == [ok |-> FALSE, pos |-> 0, kind |-> "none", dict |-> EmptyDict]

\* The first place from i on that holds no blank
RECURSIVE SkipBlanks(_, _)
SkipBlanks(t, i) ==
    IF i <= Len(t) /\ t[i] \in Whitespace THEN SkipBlanks(t, i + 1) ELSE i

\* The place after the digits that start at i: adjacent digits are one number
RECURSIVE EndOfDigits(_, _)
EndOfDigits(t, i) ==
    IF i <= Len(t) /\ t[i] = Number THEN EndOfDigits(t, i + 1) ELSE i

ParsedAs(kind, pos, dict) == [ok |-> TRUE, pos |-> pos, kind |-> kind, dict |-> dict]

RECURSIVE ParseValue(_, _)
RECURSIVE ParseMembers(_, _, _)
RECURSIVE AfterMember(_, _, _)

\* An object from t[i] on, after its "{": "}" at once is the empty object
ObjectFrom(t, i) ==
    IF i <= Len(t) /\ t[i] = RBrace THEN ParsedAs("object", i + 1, EmptyDict)
    ELSE ParseMembers(t, i, EmptyDict)

\* One JSON value at t[i], the first lexeme that is no blank
ValueAt(t, i) ==
    IF i > Len(t) THEN ParseError
    ELSE IF t[i] = Number THEN ParsedAs("number", EndOfDigits(t, i), EmptyDict)
    ELSE IF t[i] = EmptyList THEN ParsedAs("list", i + 1, EmptyDict)
    ELSE IF t[i] = LBrace THEN ObjectFrom(t, SkipBlanks(t, i + 1))
    ELSE ParseError

\* One JSON value starting at the first lexeme from i on that is no blank
ParseValue(t, i) == ValueAt(t, SkipBlanks(t, i))

\* acc with the member whose value v was parsed from t[i..]
WithNested(t, i, v, acc) ==
    IF v.ok
    THEN ParsedAs("member", v.pos,
                  DictSet(acc, "details",
                          SelectSeq(SubSeq(t, i, v.pos - 1),
                                    LAMBDA c : c \notin Whitespace)))
    ELSE ParseError

\* The member at t[i], added to acc
MemberAt(t, i, acc) ==
    IF i > Len(t) THEN ParseError
    ELSE IF IsMember(t[i])
         THEN ParsedAs("member", i + 1,
                       DictSet(acc, MemberOf(t[i]).key, MemberOf(t[i]).value))
    ELSE IF t[i] = NestedKey
         THEN WithNested(t, i + 1, ParseValue(t, i + 1), acc)
    ELSE ParseError

\* What follows a member at t[i]: "}" ends the object, "," asks for another
AfterMember(t, i, dict) ==
    IF i > Len(t) THEN ParseError
    ELSE IF t[i] = RBrace THEN ParsedAs("object", i + 1, dict)
    ELSE IF t[i] = Comma THEN ParseMembers(t, SkipBlanks(t, i + 1), dict)
    ELSE ParseError

ThenAfterMember(t, member) ==
    IF member.ok THEN AfterMember(t, SkipBlanks(t, member.pos), member.dict)
    ELSE ParseError

\* The members of an object from t[i] on, after "{" or ","; acc holds the
\* members read so far
ParseMembers(t, i, acc) == ThenAfterMember(t, MemberAt(t, i, acc))

WholeText(s, v) ==
    IF v.ok /\ SkipBlanks(s, v.pos) = Len(s) + 1 THEN v ELSE ParseError

\* json.loads(s): one value must span the whole text, blanks aside
json_loads(s) == WholeText(s, ParseValue(s, 1))

-----------------------------------------------------------------------------
(* utils/gemini_vision.py: _parse_response and the records it builds.      *)

\* Lines 249-262: the code fence and stray backticks removed
FenceStrip(response_text) ==
    LET stripped == Strip(response_text, Whitespace)
        fenceJson == <<Backtick, Backtick, Backtick, JsonWord>>
        fence == <<Backtick, Backtick, Backtick>>
        opened == IF StartsWith(stripped, fenceJson)
                  THEN Strip(Drop(stripped, Len(fenceJson)), Whitespace)
                  ELSE IF StartsWith(stripped, fence)
                  THEN Strip(Drop(stripped, Len(fence)), Whitespace)
                  ELSE stripped
        closed == IF EndsWith(opened, fence)
                  THEN Strip(DropLast(opened, Len(fence)), Whitespace)
                  ELSE opened
    IN  Strip(Strip(closed, {Backtick}), Whitespace)

\* A mutant of FillRequired: every required field is set to its default,
\* present or not.
RECURSIVE FillRequiredOverwrite(_, _)
FillRequiredOverwrite(result, fields) ==
    IF fields = <<>> THEN result
    ELSE FillRequiredOverwrite(DictSet(result, Head(fields), defaults[Head(fields)]),
                               Tail(fields))

\* Lines 277-279: each required field that is absent gets its default
RECURSIVE FillRequired(_, _)
FillRequired(result, fields) ==
    IF fields = <<>> THEN result
    ELSE LET field == Head(fields)
         IN  FillRequired(IF field \notin DOMAIN result
                          THEN DictSet(result, field, defaults[field])
                          ELSE result,
                          Tail(fields))

\* Lines 292-296: the text the repair parses
RepairedText(response_text) ==
    LET missing_braces == Count(response_text, LBrace) - Count(response_text, RBrace)
    IN  response_text \o Repeat(RBrace, missing_braces)

\* How a call ends: [raised, path, kind, value, msg].  path is the return taken
\* ("first": line 281, "repair": line 299, "default": line 303); a call
\* that raises leaves by the exception, here the TypeError of line 278 or
\* 279 on a parsed value that is no dict; msg is its message.
ParseReturn(path, kind, value) ==
    [raised |-> FALSE, path |-> path, kind |-> kind, value |-> value, msg |-> <<>>]

\* str(e) of the TypeError: `field not in result` fails on a number (line
\* 278), `result[field] = ...` on a list (line 279)
TypeErrorMessage(kind) ==
    IF kind = "number" THEN <<"argument of type 'int' is not iterable">>
    ELSE <<"list indices must be integers or slices, not str">>

ParseRaise(path, kind) ==
    [raised |-> TRUE, path |-> path, kind |-> "TypeError", value |-> EmptyDict,
     msg |-> TypeErrorMessage(kind)]

\* Lines 297-303: the repaired parse returned as it is, or the default
AfterRepair(result) ==
    IF result.ok
    THEN ParseReturn("repair", result.kind, result.dict)
    ELSE ParseReturn("default", "object", _get_default_response)

\* The handler of json.JSONDecodeError (lines 283-303)
OnDecodeError(response_text) ==
    IF Count(response_text, LBrace) > Count(response_text, RBrace)
    THEN AfterRepair(json_loads(RepairedText(response_text)))
    ELSE ParseReturn("default", "object", _get_default_response)

\* Lines 270-303, after json.loads(cleaned_text) gave `result`
AfterFirstParse(response_text, result) ==
    IF result.ok
    THEN IF result.kind = "object"
         THEN ParseReturn("first", "object",
                          FillRequired(result.dict, required_fields))
         ELSE ParseRaise("first", result.kind)
    ELSE OnDecodeError(response_text)

_parse_response(response_text) ==
    AfterFirstParse(response_text, json_loads(FenceStrip(response_text)))

-----------------------------------------------------------------------------
(* app.py: json.dumps(result, indent=2), the record written back as text.  *)

\* The order the members are written in (json.loads does not depend on it)
KeyOrder ==
    required_fields
    \o <<"estimated_compliance_cost", "potential_fine_if_inspected", "details">>

\* A nested value as it is written: a line break after each comma
RECURSIVE Spaced(_)
Spaced(v) ==
    IF v = <<>> THEN <<>>
    ELSE IF Head(v) = Comma THEN <<Comma, Space>> \o Spaced(Tail(v))
    ELSE <<Head(v)>> \o Spaced(Tail(v))

\* One member "key": value
DumpMember(key, value) ==
    IF key = "details" THEN <<NestedKey, Space>> \o Spaced(value)
    ELSE <<MemberTable[CHOOSE j \in 1..Len(MemberTable) :
                           /\ MemberTable[j].key = key
                           /\ MemberTable[j].value = value].lexeme>>

\* rest, after `member` and a comma when rest is not empty
JoinMember(member, rest) ==
    IF rest = <<>> THEN member ELSE member \o <<Comma, Space>> \o rest

\* The members of d whose keys are in `keys`, separated by commas
RECURSIVE DumpMembers(_, _)
DumpMembers(d, keys) ==
    IF keys = <<>> THEN <<>>
    ELSE IF Head(keys) \in DOMAIN d
    THEN JoinMember(DumpMember(Head(keys), d[Head(keys)]), DumpMembers(d, Tail(keys)))
    ELSE DumpMembers(d, Tail(keys))

\* json.dumps(d, indent=2) of a dict
json_dumps(d) ==
    IF DOMAIN d = {} THEN <<LBrace, RBrace>>
    ELSE <<LBrace, Space>> \o DumpMembers(d, KeyOrder) \o <<Space, RBrace>>

\* The well-formed payloads: JSON objects that hold every AnalysisRecord
\* field, as the prompt asks for them
Payloads ==
    [total_workers : {0, 10},
     workers_compliant : {0},
     workers_non_compliant : {0},
     critical_violations : {<<>>},
     warnings : {<<>>, _get_default_response.warnings},
     compliant_items : {<<>>},
     overall_compliance_score : {50, 30},
     risk_assessment : {"MEDIUM", "HIGH"},
     immediate_actions : {defaults.immediate_actions,
                          _get_default_response.immediate_actions},
     estimated_compliance_cost : {<<"Rs", "0">>, <<"Rs", "5,000">>},
     potential_fine_if_inspected : {<<"Rs", "0">>}]

\* The texts _parse_response is called on: short bodies of any lexemes and
\* whole payloads, inside each wrapper
ResponseTexts ==
    {w[1] \o body \o w[2] : w \in Wrappers, body \in Bodies}
    \cup {w[1] \o json_dumps(p) \o w[2] : w \in Wrappers, p \in Payloads}

-----------------------------------------------------------------------------
(* utils/gemini_vision.py: the fallback records and analyze_image.         *)

\* _get_error_response (lines 344-365)
_get_error_response(error_message) ==
    [total_workers |-> 0,
     workers_compliant |-> 0,
     workers_non_compliant |-> 0,
     critical_violations |-> <<>>,
     warnings |-> << [violation |-> <<"Analysis error: ">> \o error_message,
                      location |-> "System",
                      bis_code |-> "ERROR",
                      risk_level |-> "HIGH",
                      confidence |-> 100,
                      recommendation |-> "Please check API key and try again"] >>,
     compliant_items |-> <<>>,
     overall_compliance_score |-> 0,
     risk_assessment |-> "UNKNOWN",
     immediate_actions |-> << <<"Fix analysis error and retry">> >>,
     estimated_compliance_cost |-> <<"Rs", "0">>,
     potential_fine_if_inspected |-> <<"Rs", "0">>]

\* _get_timeout_response (lines 367-392)
_get_timeout_response ==
    [total_workers |-> 0,
     workers_compliant |-> 0,
     workers_non_compliant |-> 0,
     critical_violations |-> <<>>,
     warnings |-> << [violation |-> <<"Request timed out - The AI model took too long to respond">>,
                      location |-> "System",
                      bis_code |-> "TIMEOUT",
                      risk_level |-> "MEDIUM",
                      confidence |-> 100,
                      recommendation |-> "Try uploading a smaller image or retry in a few moments."] >>,
     compliant_items |-> <<>>,
     overall_compliance_score |-> 0,
     risk_assessment |-> "UNKNOWN",
     immediate_actions |-> << <<"Wait 10-30 seconds and try again">>,
                              <<"Upload a smaller/lower resolution image">>,
                              <<"Check your internet connection">> >>,
     estimated_compliance_cost |-> <<"Rs", "0">>,
     potential_fine_if_inspected |-> <<"Rs", "0">>]

\* str.lower() of a lexeme
Lower(c) ==
    IF c \in {"Timeout", "TIMEOUT"} THEN "timeout"
    ELSE IF c \in {"Lakh", "LAKH"} THEN "lakh"
    ELSE c

\* A mutant of IsTimeoutLike: a rate-limit error (429) is retried as well.
IsTimeoutLikeOr429(error_msg) ==
    \E i \in 1..Len(error_msg) :
        error_msg[i] \in {"504", "429"} \/ Lower(error_msg[i]) = "timeout"

\* Line 134: '504' in error_msg or 'timeout' in error_msg.lower()
IsTimeoutLike(error_msg) ==
    \E i \in 1..Len(error_msg) :
        error_msg[i] = "504" \/ Lower(error_msg[i]) = "timeout"

\* The messages of the exceptions Image.open raises (line 68); the file
\* name is part of the message
OpenErrorMessages ==
    { <<"cannot identify image file ", "'temp_upload.jpg'">>,
      <<"cannot identify image file ", "'IMG_", "504", "0.jpg'">> }

\* The messages of the exceptions model.generate_content raises (line 89)
RequestErrorMessages ==
    { <<"504", " Deadline Exceeded">>,
      <<"Timeout", " of 60.0s exceeded">>,
      <<"400 API key not valid">>,
      <<"429", " Resource has been exhausted">> }

\* The texts a response may carry, as its text parts in order
ResponseParts ==
    { <<>>,
      << <<LBrace, RBrace>> >>,
      << <<LBrace, MemberRisk, Comma, MemberCost, RBrace>> >>,
      << <<LBrace, MemberRisk, Comma>>, <<MemberCost, RBrace>> >>,
      << <<LBrace, MemberRisk, Comma, NestedKey, LBrace, MemberCost>> >>,
      << <<Backtick, Backtick, Backtick, JsonWord, Space,
           LBrace, MemberRisk, Comma, MemberCost>> >>,
      << <<Number, Padding>> >>,
      << <<EmptyList, Padding>> >> }

\* What an attempt meets: Image.open fails, the request fails, or the
\* request returns a response
OpenError(msg) ==
    [kind |-> "open_error", msg |-> msg, candidates |-> FALSE, parts |-> <<>>]
RequestError(msg) ==
    [kind |-> "request_error", msg |-> msg, candidates |-> FALSE, parts |-> <<>>]
Response(candidates, parts) ==
    [kind |-> "response", msg |-> <<>>, candidates |-> candidates, parts |-> parts]

AttemptOutcomes ==
    {OpenError(m) : m \in OpenErrorMessages}
    \cup {RequestError(m) : m \in RequestErrorMessages}
    \cup {Response(TRUE, p) : p \in ResponseParts}
    \cup {Response(FALSE, <<>>)}

\* Lines 101-116: response.text, or all text parts concatenated in order
RECURSIVE ExtractText(_)
ExtractText(parts) ==
    IF parts = <<>> THEN <<>> ELSE Head(parts) \o ExtractText(Tail(parts))

\* The classes of the exceptions an attempt raises; each derives from
\* Exception
ExceptionSubclasses ==
    {"UnidentifiedImageError", "GoogleAPICallError", "ValueError", "TypeError"}

\* A mutant of Caught: the handler narrowed to `except ValueError`.
CaughtValueErrorOnly(cls) == cls = "ValueError"

\* except Exception as e (line 129): whether the handler takes the exception
Caught(cls) == cls \in ExceptionSubclasses

Raises(cls, msg) == [raised |-> TRUE, cls |-> cls, msg |-> msg, value |-> EmptyDict]

\* Lines 124-127: the dict _parse_response returns is returned, an
\* exception it raises goes to the handler
FromParse(result) ==
    IF result.raised THEN Raises(result.kind, result.msg)
    ELSE [raised |-> FALSE, cls |-> "none", msg |-> <<>>, value |-> result.value]

\* A mutant of FromText: every text is handed to _parse_response.
FromTextUnchecked(response_text) == FromParse(_parse_response(response_text))

\* Lines 118-124, on the text extracted
FromText(response_text) ==
    IF response_text = <<>> \/ CharLen(response_text) < 50
    THEN Raises("ValueError", <<"Empty or invalid response from Gemini">>)
    ELSE FromParse(_parse_response(response_text))

\* The try block of one attempt (lines 66-127): what it ends with.
\*   [raised, cls, msg, value]: an exception of class cls with str(e) = msg,
\*   or the return of _parse_response's dict
TryBody(o) ==
    IF o.kind = "open_error" THEN Raises("UnidentifiedImageError", o.msg)
    ELSE IF o.kind = "request_error" THEN Raises("GoogleAPICallError", o.msg)
    ELSE IF ~o.candidates
    THEN Raises("ValueError", <<"Response blocked by safety filters">>)
    ELSE FromText(ExtractText(o.parts))

\* Whether the attempt reaches model.generate_content (line 89)
IssuesRequest(o) == o.kind # "open_error"

\* A mutant of LoopContinues: one iteration too many.
LoopContinuesInclusive(i, n) == i <= n

\* for attempt in range(max_retries) (line 65): whether iteration i runs
LoopContinues(i, n) == i < n

\* A mutant of HasRetryLeft: a timeout is never retried.
HasRetryLeftNever(i, n) == FALSE

\* Line 135: attempt < max_retries - 1
HasRetryLeft(i, n) == i < n - 1

\* A mutant of WaitTime: the wait taken from the 0-based loop variable.
WaitTimeFromZero(i) == i * 2

\* Line 136: wait_time = (attempt + 1) * 2
WaitTime(i) == (i + 1) * 2

\* How analyze_image ends: it returns a dict of the given kind ("parsed",
\* "timeout", "error"), or an exception leaves it
AnalyzeResult(kind, value) == [raised |-> FALSE, kind |-> kind, value |-> value]
AnalyzeRaise(cls) == [raised |-> TRUE, kind |-> cls, value |-> EmptyDict]

\* No cancellation has arrived; one that arrived, with the requests and the
\* waits made before it
NoCancel == [arrived |-> FALSE, requests |-> 0, sleeps |-> 0]

-----------------------------------------------------------------------------
(* utils/risk_scoring.py: prioritize_actions                               *)

\* One dict appended to actions (lines 123-132, 140-149, 157-166)
ActionItem(priority, urgency, finding, default_action, estimated_time, estimated_cost) ==
    [priority |-> priority,
     urgency |-> urgency,
     action |-> Get(finding, "recommendation", default_action),
     violation |-> Get(finding, "violation", <<"Unknown">>),
     location |-> Get(finding, "location", "Unknown"),
     bis_code |-> Get(finding, "bis_code", "N/A"),
     estimated_time |-> estimated_time,
     estimated_cost |-> estimated_cost]

\* One for loop of prioritize_actions: st holds `actions` and `priority`
RECURSIVE AppendActions(_, _, _, _, _, _)
AppendActions(st, findings, urgency, default_action, estimated_time, estimated_cost) ==
    IF findings = <<>> THEN st
    ELSE AppendActions(
             [actions |-> Append(st.actions,
                                 ActionItem(st.priority, urgency, Head(findings),
                                            default_action, estimated_time,
                                            estimated_cost)),
              priority |-> st.priority + 1],
             Tail(findings), urgency, default_action, estimated_time, estimated_cost)

\* [w for w in warnings if w.get('risk_level') == level] (lines 136-137,
\* 153-154); "None" stands for the None of an absent key
WithLevel(warnings, level) ==
    SelectSeq(warnings, LAMBDA w : Get(w, "risk_level", "None") = level)

CriticalActions(analysis_result) ==
    AppendActions([actions |-> <<>>, priority |-> 1],
                  Get(analysis_result, "critical_violations", <<>>),
                  "IMMEDIATE", "Address violation", "30 minutes", "Varies")

HighActions(st, analysis_result) ==
    AppendActions(st, WithLevel(Get(analysis_result, "warnings", <<>>), "HIGH"),
                  "HIGH", "Address warning", "1-2 hours", "Moderate")

\* A mutant of MediumActions: the MEDIUM warnings left out of the plan.
MediumActionsNone(st, analysis_result) == st

MediumActions(st, analysis_result) ==
    AppendActions(st, WithLevel(Get(analysis_result, "warnings", <<>>), "MEDIUM"),
                  "MEDIUM", "Address warning", "2-4 hours", "Low-Moderate")

\* A mutant of prioritize_actions: the MEDIUM warnings before the HIGH ones.
PrioritizeMediumFirst(analysis_result) ==
    HighActions(MediumActions(CriticalActions(analysis_result), analysis_result),
                analysis_result).actions

prioritize_actions(analysis_result) ==
    MediumActions(HighActions(CriticalActions(analysis_result), analysis_result),
                  analysis_result).actions

\* The findings of the records prioritize_actions is called on: two of each
\* kind, so that their order shows; one of another level; one with the
\* `violation` key alone
Finding(violation, risk_level) ==
    [violation |-> <<violation>>,
     location |-> "Left scaffolding",
     bis_code |-> "IS_3696_1966",
     risk_level |-> risk_level,
     recommendation |-> "Provide and enforce safety equipment"]

PlanWarnings ==
    {Finding(v, l) : v \in {"a", "b"}, l \in {"HIGH", "MEDIUM"}}
    \cup {Finding("c", "LOW"), [violation |-> <<"c">>]}

PlanRecord(critical_violations, warnings) ==
    [total_workers |-> 10,
     workers_non_compliant |-> 7,
     critical_violations |-> critical_violations,
     warnings |-> warnings,
     overall_compliance_score |-> 30]

-----------------------------------------------------------------------------
(* utils/risk_scoring.py: calculate_financial_impact.  A float is the      *)
(* rational num/den in lowest terms, den > 0; an amount string is a        *)
(* sequence of lexemes; a value that is no str is the sequence             *)
(* <<NotAString>>.                                                         *)

Rupee == "Rs"                       \* the rupee sign
Dot == "."
Minus == "-"
NotANumber == "not a number"
NotAString == "<an int>"

Abs(n) == IF n < 0 THEN -n ELSE n

RECURSIVE GCD(_, _)
GCD(a, b) == IF b = 0 THEN a ELSE GCD(b, a % b)

\* The float num/den (den > 0), in lowest terms
Rat(num, den) ==
    [num |-> num \div GCD(Abs(num), den), den |-> den \div GCD(Abs(num), den)]

\* a - b, a * k (k an int), a / b (b not 0)
RatSub(a, b) == Rat(a.num * b.den - b.num * a.den, a.den * b.den)
RatMulInt(a, k) == Rat(a.num * k, a.den)
RatDiv(a, b) ==
    IF b.num > 0 THEN Rat(a.num * b.den, a.den * b.num)
    ELSE Rat(-(a.num * b.den), a.den * (-b.num))

\* a > k (k an int)
RatGreater(a, k) == a.num > k * a.den

\* The groups of digits an amount is written with
DigitGroups == {"0", "1", "2", "5", "00", "000", "35", "50", "75", "5000"}

\* int(c) and len(c) of a group of digits
DigitsValue(c) ==
    CASE c = "1" -> 1
      [] c = "2" -> 2
      [] c = "5" -> 5
      [] c = "35" -> 35
      [] c = "50" -> 50
      [] c = "75" -> 75
      [] c = "5000" -> 5000
      [] OTHER -> 0

DigitsCount(c) ==
    CASE c \in {"00", "35", "50", "75"} -> 2
      [] c = "000" -> 3
      [] c = "5000" -> 4
      [] OTHER -> 1

RECURSIVE Pow10(_)
Pow10(n) == IF n = 0 THEN 1 ELSE 10 * Pow10(n - 1)

\* The number and the count of the digits of adjacent groups
RECURSIVE NumberOf(_)
NumberOf(s) ==
    IF s = <<>> THEN 0
    ELSE NumberOf(DropLast(s, 1)) * Pow10(DigitsCount(s[Len(s)])) + DigitsValue(s[Len(s)])

RECURSIVE DigitsLen(_)
DigitsLen(s) == IF s = <<>> THEN 0 ELSE DigitsCount(Head(s)) + DigitsLen(Tail(s))

OnlyDigits(s) == \A i \in 1..Len(s) : s[i] \in DigitGroups

\* float() of digits, a point and digits: [ok, value], ok FALSE for a
\* ValueError
Decimal(sign, whole, fraction) ==
    IF OnlyDigits(whole) /\ OnlyDigits(fraction) /\ (whole # <<>> \/ fraction # <<>>)
    THEN [ok |-> TRUE,
          value |-> Rat(sign * (NumberOf(whole) * Pow10(DigitsLen(fraction))
                                + NumberOf(fraction)),
                        Pow10(DigitsLen(fraction)))]
    ELSE [ok |-> FALSE, value |-> Rat(0, 1)]

Unsigned(sign, s) ==
    IF \E i \in 1..Len(s) : s[i] = Dot
    THEN Decimal(sign,
                 SubSeq(s, 1, (CHOOSE i \in 1..Len(s) : s[i] = Dot) - 1),
                 SubSeq(s, (CHOOSE i \in 1..Len(s) : s[i] = Dot) + 1, Len(s)))
    ELSE Decimal(sign, s, <<>>)

\* float(s): blanks around the numeral are allowed, a sign may lead it
FloatOf(s) ==
    IF Strip(s, Whitespace) # <<>> /\ Head(Strip(s, Whitespace)) = Minus
    THEN Unsigned(-1, Tail(Strip(s, Whitespace)))
    ELSE Unsigned(1, Strip(s, Whitespace))

\* amount_str.replace(rupee, '').replace(',', '').strip() (line 190); one
\* lexeme holds a comma inside
Cleaned(amount_str) ==
    Strip(SelectSeq([i \in 1..Len(amount_str) |->
                        IF amount_str[i] = "5,000" THEN "5000" ELSE amount_str[i]],
                    LAMBDA c : c \notin {Rupee, Comma}),
          Whitespace)

\* cleaned.lower().replace('lakh', '').strip() (line 193)
WithoutLakh(cleaned) ==
    Strip(SelectSeq([i \in 1..Len(cleaned) |-> Lower(cleaned[i])],
                    LAMBDA c : c # "lakh"),
          Whitespace)

\* 'lakh' in cleaned.lower() (line 192)
HasLakh(cleaned) == \E i \in 1..Len(cleaned) : Lower(cleaned[i]) = "lakh"

\* A mutant of ExceptCatches: `except ValueError:` in place of `except:`.
ExceptValueErrorOnly(cls) == cls = "ValueError"

\* The bare `except:` of line 196 takes every exception
ExceptCatches(cls) == TRUE

\* How parse_rupee ends: [raised, cls, value]
Parsed(value) == [raised |-> FALSE, cls |-> "none", value |-> value]

\* An exception of class cls in the try block: return 0 (line 197)
OnException(cls) ==
    IF ExceptCatches(cls) THEN Parsed(Rat(0, 1))
    ELSE [raised |-> TRUE, cls |-> cls, value |-> Rat(0, 1)]

\* return float(cleaned) * factor, or the ValueError of float()
FloatTimes(f, factor) ==
    IF f.ok THEN Parsed(RatMulInt(f.value, factor)) ELSE OnException("ValueError")

\* Lines 192-195, on the cleaned text
ParseCleaned(cleaned) ==
    IF HasLakh(cleaned) THEN FloatTimes(FloatOf(WithoutLakh(cleaned)), 100000)
    ELSE FloatTimes(FloatOf(cleaned), 1)

\* parse_rupee (lines 188-197); a value that is no str has no .replace
parse_rupee(amount_str) ==
    IF amount_str = <<NotAString>> THEN OnException("AttributeError")
    ELSE ParseCleaned(Cleaned(amount_str))

\* A mutant of CostIsPositive: the division also made for a cost of 0.
CostIsNotNegative(cost_amount) == cost_amount.num >= 0

\* if cost_amount > 0 (line 204)
CostIsPositive(cost_amount) == cost_amount.num > 0

\* Lines 204-207: [raised, value]; a division by 0 raises ZeroDivisionError
RoiPercentage(savings, cost_amount) ==
    IF CostIsPositive(cost_amount)
    THEN IF cost_amount.num = 0
         THEN [raised |-> TRUE, cls |-> "ZeroDivisionError", value |-> Rat(0, 1)]
         ELSE Parsed(RatMulInt(RatDiv(savings, cost_amount), 100))
    ELSE Parsed(Rat(0, 1))

\* Line 214
FinancialRiskLevel(fine_amount) ==
    IF RatGreater(fine_amount, 100000) THEN "HIGH"
    ELSE IF RatGreater(fine_amount, 50000) THEN "MEDIUM"
    ELSE "LOW"

\* How calculate_financial_impact ends: the dict returned, or an exception
FinancialRaise(cls) ==
    [raised |-> TRUE, cls |-> cls,
     potential_fine |-> Rat(0, 1), compliance_cost |-> Rat(0, 1),
     potential_savings |-> Rat(0, 1), roi_percentage |-> Rat(0, 1),
     financial_risk_level |-> "none"]

FinancialReturn(fine_amount, cost_amount, savings, roi) ==
    IF roi.raised THEN FinancialRaise(roi.cls)
    ELSE [raised |-> FALSE, cls |-> "none",
          potential_fine |-> fine_amount, compliance_cost |-> cost_amount,
          potential_savings |-> savings, roi_percentage |-> roi.value,
          financial_risk_level |-> FinancialRiskLevel(fine_amount)]

\* Lines 199-215, on what the two parse_rupee calls ended with
FinancialOf(fine, cost) ==
    IF fine.raised THEN FinancialRaise(fine.cls)
    ELSE IF cost.raised THEN FinancialRaise(cost.cls)
    ELSE FinancialReturn(fine.value, cost.value, RatSub(fine.value, cost.value),
                         RoiPercentage(RatSub(fine.value, cost.value), cost.value))

calculate_financial_impact(analysis_result) ==
    FinancialOf(parse_rupee(Get(analysis_result, "potential_fine_if_inspected",
                                <<Rupee, "0">>)),
                parse_rupee(Get(analysis_result, "estimated_compliance_cost",
                                <<Rupee, "0">>)))

\* The amounts calculate_financial_impact is called on: every short text
\* of these lexemes, the amounts the prompt and the self-test show, a
\* value that is no str
NamedAmounts ==
    { <<Rupee, "5", Comma, "00", Comma, "000">>,
      <<Rupee, "1", Dot, "5", Space, "lakh">>,
      <<Rupee, "1", Dot, "5", Space, "LAKH">>,
      <<Rupee, "2", Comma, "50", Comma, "000">>,
      <<Rupee, "75", Comma, "000">>,
      <<Rupee, "35", Comma, "000">>,
      <<Rupee, "5,000">>,
      <<NotAString>> }

Amounts ==
    SeqsUpTo({Rupee, Comma, Minus, Space, "lakh", "Lakh", "5", "0", NotANumber},
             MaxAmount)
    \cup NamedAmounts

FewAmounts ==
    { <<Rupee, "0">>,
      <<Rupee, "75", Comma, "000">>,
      <<Rupee, "2", Comma, "50", Comma, "000">>,
      <<NotAString>> }

FinanceRecord(fine, cost) ==
    [total_workers |-> 10,
     workers_non_compliant |-> 7,
     critical_violations |-> <<>>,
     warnings |-> <<>>,
     overall_compliance_score |-> 30,
     estimated_compliance_cost |-> cost,
     potential_fine_if_inspected |-> fine]

-----------------------------------------------------------------------------
(* utils/risk_scoring.py: generate_safety_report                           *)

\* A mutant of generate_safety_report: the actions prioritized with the
\* MEDIUM warnings first.
ReportMediumFirst(analysis_result) ==
    [analysis |-> analysis_result,
     risk_assessment |-> calculate_risk_score(analysis_result),
     prioritized_actions |-> PrioritizeMediumFirst(analysis_result),
     financial_impact |-> calculate_financial_impact(analysis_result),
     summary |->
        [total_workers |-> Get(analysis_result, "total_workers", 0),
         compliance_rate |-> <<Get(analysis_result, "overall_compliance_score", 0), "%">>,
         risk_level |-> calculate_risk_score(analysis_result).risk_level,
         critical_issues |-> Len(Get(analysis_result, "critical_violations", <<>>)),
         total_warnings |-> Len(Get(analysis_result, "warnings", <<>>)),
         immediate_action_needed |->
            calculate_risk_score(analysis_result).action_urgency
                \in {"IMMEDIATE", "24_HOURS"}]]

generate_safety_report(analysis_result) ==
    [analysis |-> analysis_result,
     risk_assessment |-> calculate_risk_score(analysis_result),
     prioritized_actions |-> prioritize_actions(analysis_result),
     financial_impact |-> calculate_financial_impact(analysis_result),
     summary |->
        [total_workers |-> Get(analysis_result, "total_workers", 0),
         compliance_rate |-> <<Get(analysis_result, "overall_compliance_score", 0), "%">>,
         risk_level |-> calculate_risk_score(analysis_result).risk_level,
         critical_issues |-> Len(Get(analysis_result, "critical_violations", <<>>)),
         total_warnings |-> Len(Get(analysis_result, "warnings", <<>>)),
         immediate_action_needed |->
            calculate_risk_score(analysis_result).action_urgency
                \in {"IMMEDIATE", "24_HOURS"}]]

\* The self-test's record with its amounts (lines 254-289)
test_analysis_amounts ==
    [total_workers |-> 10,
     workers_non_compliant |-> 7,
     critical_violations |-> <<Finding("a", "CRITICAL"), Finding("b", "CRITICAL")>>,
     warnings |-> <<Finding("a", "HIGH")>>,
     overall_compliance_score |-> 30,
     estimated_compliance_cost |-> <<Rupee, "35", Comma, "000">>,
     potential_fine_if_inspected |-> <<Rupee, "5", Comma, "00", Comma, "000">>]

\* The records the three computations are made on together: the self-test's
\* record, the records analyze_image returns in place of an analysis, a
\* record with warnings of both levels, a record with the amounts alone
ReportRecords ==
    { test_analysis_amounts,
      _get_default_response,
      _get_timeout_response,
      _get_error_response(<<"400 API key not valid">>),
      PlanRecord(<<Finding("a", "CRITICAL")>>,
                 <<Finding("a", "MEDIUM"), Finding("b", "HIGH")>>),
      FinanceRecord(<<Rupee, "2", Comma, "50", Comma, "000">>,
                    <<Rupee, "75", Comma, "000">>) }

-----------------------------------------------------------------------------
(* utils/bis_standards.py: BISDatabase.  The file bis_codes.json is absent, *)
(* is no JSON, or is a list of records; a BISStandard is the record of its  *)
(* six fields; a query that returns nothing gives the empty sequence.       *)

\* The keys _load_standards reads of each record (lines 63-68)
StandardKeys == {"code", "title", "requirement", "penalty", "severity", "category"}

Standard(code, severity, category) ==
    [code |-> code,
     title |-> "Safety equipment",
     requirement |-> "All workers must wear it",
     penalty |-> "Rs5,000",
     severity |-> severity,
     category |-> category]

\* The records a file may hold: two as the data model asks for them, one
\* with its enum fields in lower case, one that lacks the key `category`
CatalogItems ==
    { Standard("IS_2925_1984", "HIGH", "PPE"),
      Standard("IS_3696_1966", "CRITICAL", "STRUCTURAL"),
      Standard("IS_1646_1997", "high", "ppe"),
      [code |-> "IS_4130_1991",
       title |-> "Safety equipment",
       requirement |-> "All workers must wear it",
       penalty |-> "Rs5,000",
       severity |-> "MEDIUM"] }

CatalogSources ==
    { [kind |-> "absent", items |-> <<>>],
      [kind |-> "not_json", items |-> <<>>] }
    \cup {[kind |-> "list", items |-> items] : items \in SeqsUpTo(CatalogItems, MaxItems)}

\* str.upper() of a category or severity
Upper(c) ==
    CASE c \in {"ppe", "Ppe"} -> "PPE"
      [] c = "high" -> "HIGH"
      [] OTHER -> c

\* What _load_standards leaves behind: the two attributes, and the
\* exception that left it, if one did
Loaded(standards, dict) ==
    [standards |-> standards, dict |-> dict, raised |-> FALSE, cls |-> "none"]
LoadRaise(standards, dict, cls) ==
    [standards |-> standards, dict |-> dict, raised |-> TRUE, cls |-> cls]

\* The for loop of lines 61-71: a record that lacks a key raises KeyError
\* when it is read, the records before it stay loaded
RECURSIVE LoadItems(_, _, _)
LoadItems(data, standards, dict) ==
    IF data = <<>> THEN Loaded(standards, dict)
    ELSE IF ~(StandardKeys \subseteq DOMAIN Head(data))
    THEN LoadRaise(standards, dict, "KeyError")
    ELSE LoadItems(Tail(data), Append(standards, Head(data)),
                   DictSet(dict, Head(data).code, Head(data)))

\* The end of _load_standards when the try block raised cls with the
\* attributes as given: a handler (lines 75, 79) empties both, or the
\* exception leaves
AfterLoadError(result) ==
    IF ~result.raised THEN result
    ELSE IF result.cls \in {"FileNotFoundError", "JSONDecodeError"}
    THEN Loaded(<<>>, EmptyDict)
    ELSE result

\* _load_standards (lines 48-82); before line 58 the attributes are the
\* class's empty ones
_load_standards(file) ==
    IF file.kind = "absent"
    THEN AfterLoadError(LoadRaise(<<>>, EmptyDict, "FileNotFoundError"))
    ELSE IF file.kind = "not_json"
    THEN AfterLoadError(LoadRaise(<<>>, EmptyDict, "JSONDecodeError"))
    ELSE AfterLoadError(LoadItems(file.items, <<>>, EmptyDict))

\* The threads that call BISDatabase(), and where a thread is: its
\* position, the object _load_standards runs on, the loop's position, the
\* instance returned to it, what its last read of the catalog returned
Threads == {"t1", "t2"}

ThreadAt(pos, self, idx, ret, seen) ==
    [pc |-> pos, self |-> self, idx |-> idx, ret |-> ret, seen |-> seen]

NothingSeen == [done |-> FALSE, items |-> <<>>]

\* The sources the threads load: the ones _load_standards reads to the end
SharedSources == {s \in CatalogSources : ~_load_standards(s).raised}

\* get_standard (line 94): the standard, or nothing for None
get_standard(dict, code) == IF code \in DOMAIN dict THEN <<dict[code]>> ELSE <<>>

\* `if category:`, `if severity:` (lines 123, 126)
Given(filter) == filter # "None"

\* search_standards (lines 121-129)
ByCategory(results, category) ==
    IF Given(category)
    THEN SelectSeq(results, LAMBDA st : st.category = Upper(category))
    ELSE results

BySeverity(results, severity) ==
    IF Given(severity)
    THEN SelectSeq(results, LAMBDA st : st.severity = Upper(severity))
    ELSE results

search_standards(standards, category, severity) ==
    BySeverity(ByCategory(standards, category), severity)

\* format_for_prompt (lines 150-161)
RECURSIVE format_for_prompt(_)
format_for_prompt(standards) ==
    IF standards = <<>> THEN <<"INDIAN BIS CONSTRUCTION SAFETY STANDARDS:">>
    ELSE format_for_prompt(DropLast(standards, 1))
         \o <<standards[Len(standards)].code,
              standards[Len(standards)].title,
              standards[Len(standards)].requirement,
              standards[Len(standards)].penalty,
              standards[Len(standards)].severity,
              standards[Len(standards)].category,
              "--------">>

\* What a query returned: its name and arguments, the list (`alias` when
\* it is self._standards itself) or the text, and whether the caller has
\* changed the list since
Answer(name, category, severity, code, alias, items, text) ==
    [name |-> name, category |-> category, severity |-> severity, code |-> code,
     alias |-> alias, items |-> items, text |-> text, mutated |-> FALSE]

NoQuery == Answer("none", "None", "None", "None", FALSE, <<>>, <<>>)

-----------------------------------------------------------------------------
(* The state machine.                                                      *)

NoRiskOut == [risk_score |-> 0, risk_level |-> "none", action_urgency |-> "none",
              critical_count |-> 0, warning_count |-> 0, compliance_percentage |-> 0]

NoFinancialOut ==
    [raised |-> FALSE, cls |-> "none",
     potential_fine |-> Rat(0, 1), compliance_cost |-> Rat(0, 1),
     potential_savings |-> Rat(0, 1), roi_percentage |-> Rat(0, 1),
     financial_risk_level |-> "none"]

NoReport ==
    [analysis |-> EmptyDict, risk_assessment |-> NoRiskOut,
     prioritized_actions |-> <<>>, financial_impact |-> NoFinancialOut,
     summary |-> EmptyDict]

Init ==
    /\ op = "none"
    /\ rrec = EmptyDict
    /\ rout = NoRiskOut
    /\ plan = <<>>
    /\ fin = NoFinancialOut
    /\ report = NoReport
    /\ calls = <<>>
    /\ source = [kind |-> "absent", items |-> <<>>]
    /\ _instance = FALSE
    /\ _standards = <<>>
    /\ _standards_dict = EmptyDict
    /\ cout = [raised |-> FALSE, cls |-> "none"]
    /\ query = NoQuery
    /\ ptext = <<>>
    /\ pout = ParseReturn("none", "none", EmptyDict)
    /\ pagain = [text |-> <<>>, out |-> ParseReturn("none", "none", EmptyDict)]
    /\ pc = "idle"
    /\ max_retries = 0
    /\ attempt = 0
    /\ requests = 0
    /\ sleeps = <<>>
    /\ outcomes = <<>>
    /\ aout = AnalyzeResult("none", EmptyDict)
    /\ cancel = NoCancel
    /\ threads = [t \in Threads |-> ThreadAt("idle", 0, 0, 0, NothingSeen)]
    /\ instances = <<>>
    /\ cls_instance = 0
    /\ loads = 0

\* A call of calculate_risk_score
CallRiskScore ==
    /\ op = "none"
    /\ \E nCrit \in 0..MaxCrit, warnings \in SeqsUpTo(WarningKinds, MaxWarn),
          score \in ComplianceScores, total \in TotalWorkers,
          nonCompliant \in NonCompliantWorkers :
          LET rec == MakeRecord(nCrit, warnings, score, total, nonCompliant)
          IN  /\ rrec' = rec
              /\ rout' = calculate_risk_score(rec)
    /\ op' = "risk"
    /\ UNCHANGED <<scoringVars, catalogVars, parseVars, analyzeVars>>

\* A call of prioritize_actions
CallPrioritizeActions ==
    /\ op = "none"
    /\ \E critical_violations \in SeqsUpTo({Finding("a", "CRITICAL"), Finding("b", "CRITICAL")}, MaxCrit),
          warnings \in SeqsUpTo(PlanWarnings, MaxWarn) :
          /\ rrec' = PlanRecord(critical_violations, warnings)
          /\ plan' = prioritize_actions(PlanRecord(critical_violations, warnings))
    /\ op' = "prioritize"
    /\ UNCHANGED <<rout, fin, report, calls, catalogVars, parseVars, analyzeVars>>

\* A call of calculate_financial_impact
CallFinancialImpact ==
    /\ op = "none"
    /\ \E fine \in Amounts, cost \in Amounts :
          /\ fine \in FewAmounts \/ cost \in FewAmounts
          /\ rrec' = FinanceRecord(fine, cost)
          /\ fin' = calculate_financial_impact(FinanceRecord(fine, cost))
    /\ op' = "financial"
    /\ UNCHANGED <<rout, plan, report, calls, catalogVars, parseVars, analyzeVars>>

\* The three computations and the report, made on one record in any order
\* (app.py lines 575, 605, 704; 760-761; 854-855): the first call is given
\* the record, the later ones the same record
Derives(name) ==
    /\ op \in {"none", "derive"}
    /\ \A i \in 1..Len(calls) : calls[i] # name
    /\ IF op = "none" THEN rrec' \in ReportRecords ELSE rrec' = rrec
    /\ calls' = Append(calls, name)
    /\ op' = "derive"

DeriveRiskScore ==
    /\ Derives("calculate_risk_score")
    /\ rout' = calculate_risk_score(rrec')
    /\ UNCHANGED <<plan, fin, report, catalogVars, parseVars, analyzeVars>>

DerivePrioritizedActions ==
    /\ Derives("prioritize_actions")
    /\ plan' = prioritize_actions(rrec')
    /\ UNCHANGED <<rout, fin, report, catalogVars, parseVars, analyzeVars>>

DeriveFinancialImpact ==
    /\ Derives("calculate_financial_impact")
    /\ fin' = calculate_financial_impact(rrec')
    /\ UNCHANGED <<rout, plan, report, catalogVars, parseVars, analyzeVars>>

DeriveSafetyReport ==
    /\ Derives("generate_safety_report")
    /\ report' = generate_safety_report(rrec')
    /\ UNCHANGED <<rout, plan, fin, catalogVars, parseVars, analyzeVars>>

\* BISDatabase() (lines 42-46): the first call sets _instance and loads
\* the file, also when _load_standards raises; a later call returns the
\* instance as it is
Construct ==
    /\ op \in {"none", "catalog"}
    /\ op' = "catalog"
    /\ _instance' = TRUE
    /\ IF ~_instance
       THEN /\ source' \in CatalogSources
            /\ _standards' = _load_standards(source').standards
            /\ _standards_dict' = _load_standards(source').dict
            /\ cout' = [raised |-> _load_standards(source').raised,
                        cls |-> _load_standards(source').cls]
       ELSE /\ cout' = [raised |-> FALSE, cls |-> "none"]
            /\ UNCHANGED <<source, _standards, _standards_dict>>
    /\ query' = NoQuery
    /\ UNCHANGED <<riskVars, scoringVars, parseVars, analyzeVars,
                   threadVars>>

\* The caller holds the instance a BISDatabase() call returned
HasDatabase == op = "catalog" /\ _instance /\ ~cout.raised

GetStandard ==
    /\ HasDatabase
    /\ \E code \in {"IS_2925_1984", "IS_1646_1997", "IS_4130_1991", "IS_0000_0000"} :
          query' = Answer("get_standard", "None", "None", code, FALSE,
                          get_standard(_standards_dict, code), <<>>)
    /\ UNCHANGED <<op, source, _instance, _standards, _standards_dict, cout,
                   riskVars, scoringVars, parseVars, analyzeVars,
                   threadVars>>

\* search_standards; without a filter `results` is never rebound, and the
\* list returned is self._standards itself (lines 121, 129)
SearchStandards ==
    /\ HasDatabase
    /\ \E category \in {"None", "PPE", "ppe", "Ppe", "STRUCTURAL"},
          severity \in {"None", "HIGH", "high", "CRITICAL"} :
          query' = Answer("search_standards", category, severity, "None",
                          ~Given(category) /\ ~Given(severity),
                          search_standards(_standards, category, severity), <<>>)
    /\ UNCHANGED <<op, source, _instance, _standards, _standards_dict, cout,
                   riskVars, scoringVars, parseVars, analyzeVars,
                   threadVars>>

\* get_all_standards (line 133): a copy of the list
GetAllStandards ==
    /\ HasDatabase
    /\ query' = Answer("get_all_standards", "None", "None", "None", FALSE,
                       _standards, <<>>)
    /\ UNCHANGED <<op, source, _instance, _standards, _standards_dict, cout,
                   riskVars, scoringVars, parseVars, analyzeVars,
                   threadVars>>

FormatForPrompt ==
    /\ HasDatabase
    /\ query' = Answer("format_for_prompt", "None", "None", "None", FALSE,
                       <<>>, format_for_prompt(_standards))
    /\ UNCHANGED <<op, source, _instance, _standards, _standards_dict, cout,
                   riskVars, scoringVars, parseVars, analyzeVars,
                   threadVars>>

\* The caller removes the last element of the list a query returned
\* (list.pop()); when that list is self._standards, the catalog loses it
CallerMutatesList ==
    /\ HasDatabase
    /\ query.name \in {"search_standards", "get_all_standards"}
    /\ query.items # <<>>
    /\ query' = [query EXCEPT !.items = DropLast(query.items, 1), !.mutated = TRUE]
    /\ _standards' = IF query.alias THEN DropLast(query.items, 1) ELSE _standards
    /\ UNCHANGED <<op, source, _instance, _standards_dict, cout,
                   riskVars, scoringVars, parseVars, analyzeVars,
                   threadVars>>

\* A call of _parse_response
CallParseResponse ==
    /\ op = "none"
    /\ \E text \in ResponseTexts :
          /\ ptext' = text
          /\ pout' = _parse_response(text)
    /\ op' = "parse"
    /\ UNCHANGED <<scoringVars, catalogVars, pagain, riskVars, analyzeVars>>

\* The record _parse_response returned, written as JSON and passed
\* through _parse_response again
CallParseResponseAgain ==
    /\ op = "parse"
    /\ ~pout.raised
    /\ pagain' = [text |-> json_dumps(pout.value),
                  out |-> _parse_response(json_dumps(pout.value))]
    /\ op' = "reparse"
    /\ UNCHANGED <<scoringVars, catalogVars, ptext, pout, riskVars, analyzeVars>>

\* A call of analyze_image(image_path, max_retries)
CallAnalyzeImage ==
    /\ op = "none"
    /\ op' = "analyze"
    /\ max_retries' \in 0..MaxRetriesBound
    /\ attempt' = 0
    /\ pc' = "loop"
    /\ UNCHANGED <<scoringVars, catalogVars, riskVars, parseVars, requests, sleeps, outcomes, aout,
                   cancel>>

\* The head of the for loop (line 65); past the last iteration the
\* function returns the timeout record (line 148)
LoopHead ==
    /\ pc = "loop"
    /\ IF LoopContinues(attempt, max_retries)
       THEN /\ pc' = "try"
            /\ aout' = aout
       ELSE /\ pc' = "done"
            /\ aout' = AnalyzeResult("timeout", _get_timeout_response)
    /\ UNCHANGED <<scoringVars, catalogVars, op, riskVars, parseVars, max_retries, attempt, requests,
                   sleeps, outcomes, cancel>>

\* Where an attempt that ended with `body` leaves the call: the return of
\* line 127, or the handler of Exception (lines 129-146) up to the sleep
AfterTry(body) ==
    IF ~body.raised
    THEN /\ pc' = "done"
         /\ aout' = AnalyzeResult("parsed", body.value)
    ELSE IF ~Caught(body.cls)
    THEN /\ pc' = "done"
         /\ aout' = AnalyzeRaise(body.cls)
    ELSE IF IsTimeoutLike(body.msg)
    THEN IF HasRetryLeft(attempt, max_retries)
         THEN /\ pc' = "sleep"
              /\ aout' = aout
         ELSE /\ pc' = "done"
              /\ aout' = AnalyzeResult("timeout", _get_timeout_response)
    ELSE /\ pc' = "done"
         /\ aout' = AnalyzeResult("error", _get_error_response(body.msg))

\* One attempt: the try block (lines 66-127) and the handler of Exception
\* (lines 129-146), up to the sleep
Attempt ==
    /\ pc = "try"
    /\ \E o \in AttemptOutcomes :
          /\ outcomes' = Append(outcomes, o)
          /\ requests' = IF IssuesRequest(o) THEN requests + 1 ELSE requests
          /\ AfterTry(TryBody(o))
    /\ UNCHANGED <<scoringVars, catalogVars, op, riskVars, parseVars, max_retries, attempt, sleeps,
                   cancel>>

\* time.sleep(wait_time) and continue (lines 136-139)
Backoff ==
    /\ pc = "sleep"
    /\ sleeps' = Append(sleeps, WaitTime(attempt))
    /\ attempt' = attempt + 1
    /\ pc' = "loop"
    /\ UNCHANGED <<scoringVars, catalogVars, op, riskVars, parseVars, max_retries, requests, outcomes,
                   aout, cancel>>

\* The record analyze_image returned is scored and its plan made
\* (app.py lines 836, 854; 575, 704)
ScoreAnalysis ==
    /\ op = "analyze"
    /\ pc = "done"
    /\ ~aout.raised
    /\ rrec' = aout.value
    /\ rout' = calculate_risk_score(aout.value)
    /\ plan' = prioritize_actions(aout.value)
    /\ op' = "scored"
    /\ UNCHANGED <<fin, report, calls, catalogVars, parseVars, analyzeVars>>

AnalyzeStep == LoopHead \/ Attempt \/ Backoff

Next ==
    \/ CallRiskScore
    \/ CallPrioritizeActions
    \/ CallFinancialImpact
    \/ DeriveRiskScore
    \/ DerivePrioritizedActions
    \/ DeriveFinancialImpact
    \/ DeriveSafetyReport
    \/ Construct
    \/ GetStandard
    \/ SearchStandards
    \/ GetAllStandards
    \/ FormatForPrompt
    \/ CallerMutatesList
    \/ CallParseResponse
    \/ CallParseResponseAgain
    \/ CallAnalyzeImage
    \/ AnalyzeStep
    \/ ScoreAnalysis

Spec == Init /\ [][Next]_vars

\* The interpreter runs a call to its end: a step that can be taken is taken
\* (each request returns or raises, each sleep ends).
FairSpec == Spec /\ WF_vars(AnalyzeStep)

\* A cancellation arrives while the call is in time.sleep (line 138). The
\* function has no handler for it: delivered to the sleeping thread as
\* KeyboardInterrupt, which `except Exception` does not take and which is
\* raised inside the handler, it leaves the call; not delivered to that
\* thread, it changes nothing and the wait goes on.
CancelDuringBackoff ==
    /\ pc = "sleep"
    /\ ~cancel.arrived
    /\ cancel' = [arrived |-> TRUE, requests |-> requests, sleeps |-> Len(sleeps)]
    /\ \/ /\ pc' = "done"
          /\ aout' = AnalyzeRaise("KeyboardInterrupt")
       \/ UNCHANGED <<pc, aout>>
    /\ UNCHANGED <<scoringVars, catalogVars, op, riskVars, parseVars, max_retries,
                   attempt, requests, sleeps, outcomes>>

\* The program with cancellations
NextOrCancel == Next \/ CancelDuringBackoff

CancelSpec == Init /\ [][NextOrCancel]_vars

-----------------------------------------------------------------------------
(* utils/bis_standards.py: BISDatabase() called by several threads for     *)
(* the first time.  __new__ and _load_standards hold no lock; a thread     *)
(* may be switched between any two statements.                             *)

\* Thread t runs the statement it is at; nothing outside the class and
\* the threads changes
ThreadRuns(t, pos) ==
    /\ op = "threads"
    /\ threads[t].pc = pos
    /\ UNCHANGED <<op, source, riskVars, scoringVars, _instance, _standards,
                   _standards_dict, cout, query, parseVars, analyzeVars>>

\* Line 43: if cls._instance is None
ThreadCheck(t) ==
    /\ ThreadRuns(t, "new")
    /\ threads' = [threads EXCEPT ![t].pc = IF cls_instance = 0 THEN "create"
                                             ELSE "return"]
    /\ UNCHANGED <<instances, cls_instance, loads>>

\* Line 44: cls._instance = super().__new__(cls); the new object has the
\* class's attributes (lines 39-40) until _load_standards assigns its own
ThreadCreate(t) ==
    /\ ThreadRuns(t, "create")
    /\ instances' = Append(instances, Loaded(<<>>, EmptyDict))
    /\ cls_instance' = Len(instances) + 1
    /\ threads' = [threads EXCEPT ![t].pc = "load"]
    /\ UNCHANGED loads

\* Line 45: cls._instance._load_standards(), up to the file read (lines
\* 52-56); a file that is absent or no JSON goes to its handler (lines
\* 75-82)
ThreadOpen(t) ==
    /\ ThreadRuns(t, "load")
    /\ loads' = loads + 1
    /\ IF source.kind = "list"
       THEN /\ threads' = [threads EXCEPT ![t].pc = "assign", ![t].self = cls_instance]
            /\ UNCHANGED instances
       ELSE /\ threads' = [threads EXCEPT ![t].pc = "return", ![t].self = cls_instance]
            /\ instances' = [instances EXCEPT ![cls_instance] = _load_standards(source)]
    /\ UNCHANGED cls_instance

\* Lines 58-59: self._standards = [], self._standards_dict = {}
ThreadAssign(t) ==
    /\ ThreadRuns(t, "assign")
    /\ instances' = [instances EXCEPT ![threads[t].self] = Loaded(<<>>, EmptyDict)]
    /\ threads' = [threads EXCEPT ![t].pc = "loop", ![t].idx = 1]
    /\ UNCHANGED <<cls_instance, loads>>

\* One iteration of the loop of lines 61-71, or its end: the standard is
\* appended to the list self._standards is bound to at that time
ThreadLoadItem(t) ==
    /\ ThreadRuns(t, "loop")
    /\ IF threads[t].idx > Len(source.items)
       THEN /\ threads' = [threads EXCEPT ![t].pc = "return"]
            /\ UNCHANGED instances
       ELSE /\ instances' =
                  [instances EXCEPT ![threads[t].self] =
                      LoadItems(<<source.items[threads[t].idx]>>, @.standards, @.dict)]
            /\ threads' =
                  [threads EXCEPT ![t].idx = @ + 1,
                                  ![t].pc = IF instances'[threads[t].self].raised
                                            THEN "raised" ELSE "loop"]
    /\ UNCHANGED <<cls_instance, loads>>

\* Line 46: return cls._instance
ThreadReturn(t) ==
    /\ ThreadRuns(t, "return")
    /\ threads' = [threads EXCEPT ![t].pc = "ready", ![t].ret = cls_instance]
    /\ UNCHANGED <<instances, cls_instance, loads>>

\* The caller reads the catalog of the instance it was given:
\* get_all_standards() (line 133)
ThreadRead(t) ==
    /\ ThreadRuns(t, "ready")
    /\ threads' = [threads EXCEPT ![t].seen =
                      [done |-> TRUE, items |-> instances[threads[t].ret].standards]]
    /\ UNCHANGED <<instances, cls_instance, loads>>

\* The threads call BISDatabase() for the first time
StartThreads ==
    /\ op = "none"
    /\ op' = "threads"
    /\ source' \in SharedSources
    /\ threads' = [t \in Threads |-> ThreadAt("new", 0, 0, 0, NothingSeen)]
    /\ UNCHANGED <<instances, cls_instance, loads>>
    /\ UNCHANGED <<riskVars, scoringVars, _instance, _standards, _standards_dict,
                   cout, query, parseVars, analyzeVars>>

ThreadNext ==
    \/ StartThreads
    \/ \E t \in Threads : ThreadCheck(t)
    \/ \E t \in Threads : ThreadCreate(t)
    \/ \E t \in Threads : ThreadOpen(t)
    \/ \E t \in Threads : ThreadAssign(t)
    \/ \E t \in Threads : ThreadLoadItem(t)
    \/ \E t \in Threads : ThreadReturn(t)
    \/ \E t \in Threads : ThreadRead(t)

ThreadSpec == Init /\ [][ThreadNext]_vars

-----------------------------------------------------------------------------
(* Vocabulary of the properties.                                           *)

\* The fields of an AnalysisRecord
AnalysisRecordFields ==
    {"total_workers", "workers_compliant", "workers_non_compliant",
     "critical_violations", "warnings", "compliant_items",
     "overall_compliance_score", "risk_assessment", "immediate_actions",
     "estimated_compliance_cost", "potential_fine_if_inspected"}

Last(s) == s[Len(s)]

Max(a, b) == IF a >= b THEN a ELSE b

\* The request failures that signal a timeout: a gateway timeout (504) and
\* an explicit timeout
TimeoutSignals ==
    { <<"504", " Deadline Exceeded">>, <<"Timeout", " of 60.0s exceeded">> }

RequestTimedOut(o) == o.kind = "request_error" /\ o.msg \in TimeoutSignals

\* A failure that is not timeout-like: the request is rejected, the
\* response is blocked, empty or too short, the parsing of the text raises,
\* or the image cannot be opened (its file name aside)
OtherFailure(o) ==
    \/ o.kind = "request_error" /\ o.msg \notin TimeoutSignals
    \/ o.kind = "response" /\ TryBody(o).raised
    \/ o.kind = "open_error" /\ "504" \notin {o.msg[i] : i \in 1..Len(o.msg)}

\* The three worker counts are 0 and there is no critical violation
ZeroedCounts(r) ==
    /\ r.total_workers = 0
    /\ r.workers_compliant = 0
    /\ r.workers_non_compliant = 0
    /\ r.critical_violations = <<>>

\* r has exactly one warning, of the given level
OneWarning(r, level) ==
    /\ Len(r.warnings) = 1
    /\ r.warnings[1].risk_level = level

Running == {"loop", "try", "sleep"}

-----------------------------------------------------------------------------
(* C1..C10                                                                 *)

\* C1: for every input string, _parse_response returns without raising and
\* the record returned holds every AnalysisRecord field.
C1_NormalizeNeverFails ==
    op = "parse" =>
        /\ ~pout.raised
        /\ AnalysisRecordFields \subseteq DOMAIN pout.value

\* C2: whatever max_retries >= 0 and whatever each attempt meets,
\* analyze_image makes at most max_retries attempts, ends, raises nothing,
\* and returns exactly one of: the record parsed from the last attempt's
\* response, the timeout record, the error record.
C2_ReturnsOneOfThree ==
    pc = "done" =>
        LET parsed ==
                /\ aout.kind = "parsed"
                /\ outcomes # <<>>
                /\ Last(outcomes).kind = "response"
                /\ ~_parse_response(ExtractText(Last(outcomes).parts)).raised
                /\ aout.value = _parse_response(ExtractText(Last(outcomes).parts)).value
            timeout ==
                /\ aout.kind = "timeout"
                /\ aout.value = _get_timeout_response
            error ==
                /\ aout.kind = "error"
                /\ outcomes # <<>>
                /\ aout.value = _get_error_response(TryBody(Last(outcomes)).msg)
        IN  /\ ~aout.raised
            /\ \/ parsed /\ ~timeout /\ ~error
               \/ ~parsed /\ timeout /\ ~error
               \/ ~parsed /\ ~timeout /\ error

C2_AnalyzeTerminates ==
    /\ [](Len(outcomes) <= max_retries)
    /\ []C2_ReturnsOneOfThree
    /\ (op = "analyze") ~> (pc = "done")

\* A call with three attempts whose last response parses to a number: the
\* failure inside the parsing ends in the error record.
C2_Witness ==
    /\ pc = "done"
    /\ Len(outcomes) = 3
    /\ Last(outcomes).kind = "response"
    /\ Last(outcomes).candidates
    /\ CharLen(ExtractText(Last(outcomes).parts)) >= 50
    /\ _parse_response(ExtractText(Last(outcomes).parts)).raised
    /\ aout.kind = "error"

\* C3: the requests made never exceed max_retries; when every attempt's
\* request times out, exactly max_retries requests are made and the result
\* is the timeout record: counts 0, no critical violation, one MEDIUM
\* warning, risk_assessment "UNKNOWN".
C3_RequestBudget ==
    /\ requests <= max_retries
    /\ (pc = "done" /\ \A i \in 1..Len(outcomes) : RequestTimedOut(outcomes[i])) =>
           /\ requests = max_retries
           /\ ~aout.raised
           /\ aout.kind = "timeout"
           /\ ZeroedCounts(aout.value)
           /\ OneWarning(aout.value, "MEDIUM")
           /\ aout.value.risk_assessment = "UNKNOWN"

\* Three attempts, each timed out.
C3_Witness ==
    /\ pc = "done"
    /\ max_retries = 3
    /\ Len(outcomes) = 3
    /\ \A i \in 1..3 : RequestTimedOut(outcomes[i])
    /\ requests = 3

C5_RiskScoreInRange ==
    op = "risk" => rout.risk_score \in 0..100

\* C6: level and urgency follow from risk_score alone, by the thresholds
\* 75, 50 and 25.
C6_LevelByThreshold ==
    op = "risk" =>
        LET score == rout.risk_score
            pair == <<rout.risk_level, rout.action_urgency>>
        IN  /\ (pair = <<"CRITICAL", "IMMEDIATE">>) <=> (score >= 75)
            /\ (pair = <<"HIGH", "24_HOURS">>) <=> (50 <= score /\ score < 75)
            /\ (pair = <<"MEDIUM", "48_HOURS">>) <=> (25 <= score /\ score < 50)
            /\ (pair = <<"LOW", "WEEKLY">>) <=> (score < 25)

\* A score on the threshold 75.
C6_Witness ==
    /\ op = "risk"
    /\ rout.risk_score = 75
    /\ rout.risk_level = "CRITICAL"

\* n is an integer nearest to the float num/den: |n - num/den| <= 1/2
\* (a half may round either way)
Nearest(n, raw) ==
    LET diff == 2 * (n * raw.den - raw.num)
    IN  -raw.den <= diff /\ diff <= raw.den

\* C7: risk_score = clamp(round(s), 0, 100), s rounded to the nearest
\* integer and not truncated; the self-test's record (s = 95.5) yields 96.
\* Stated for the records with a compliance score in 0..100 and
\* non-compliant workers within the total, where s >= 0.
C7_RoundedScore ==
    (/\ op = "risk"
     /\ rrec.overall_compliance_score \in 0..100
     /\ rrec.workers_non_compliant <= rrec.total_workers) =>
        /\ \E n \in {IntTrunc(RawScore(rrec).num, RawScore(rrec).den) + d : d \in {0, 1}} :
              /\ Nearest(n, RawScore(rrec))
              /\ rout.risk_score = Max(0, Min(n, 100))
        /\ rrec = test_analysis => rout.risk_score = 96

\* The object _parse_response parsed, on the first parse or after the repair
ParsedObject(text) ==
    IF json_loads(FenceStrip(text)).ok THEN json_loads(FenceStrip(text))
    ELSE json_loads(RepairedText(text))

\* C8: whenever _parse_response obtains a parsed JSON object, on the first
\* parse or after the repair, the record returned holds every
\* AnalysisRecord field, an absent one with its default.
C8_AllFieldsFilled ==
    (/\ op = "parse"
     /\ pout.path \in {"first", "repair"}
     /\ ParsedObject(ptext).kind = "object") =>
        /\ ~pout.raised
        /\ \A f \in AnalysisRecordFields :
              /\ f \in DOMAIN pout.value
              /\ f \notin DOMAIN ParsedObject(ptext).dict => pout.value[f] = defaults[f]

\* The fence-stripped text is a JSON object but for k >= 1 closing braces
LacksBraces(cleaned, k) ==
    /\ ~json_loads(cleaned).ok
    /\ json_loads(cleaned \o Repeat(RBrace, k)).ok
    /\ json_loads(cleaned \o Repeat(RBrace, k)).kind = "object"

\* C9: fence strip, then parse, then repair: a text whose fence-stripped
\* form lacks only k >= 1 closing braces, fenced or not, is repaired on
\* the stripped text, and the object so parsed is returned, not the
\* default record.
C9_RepairAfterStrip ==
    op = "parse" =>
        \A k \in 1..(MaxBody + 1) :
            LacksBraces(FenceStrip(ptext), k) =>
                /\ ~pout.raised
                /\ pout.path = "repair"
                /\ pout.value = json_loads(FenceStrip(ptext) \o Repeat(RBrace, k)).dict

\* C10: when the text cannot be parsed and the repair does not apply or
\* fails too, the default record is returned: counts 0, no critical
\* violation, one MEDIUM warning, compliance score 50, risk_assessment
\* "MEDIUM"; nothing is raised.
C10_DefaultOnParseFailure ==
    (/\ op = "parse"
     /\ ~json_loads(FenceStrip(ptext)).ok
     /\ \/ Count(ptext, LBrace) <= Count(ptext, RBrace)
        \/ ~json_loads(RepairedText(ptext)).ok) =>
        /\ ~pout.raised
        /\ DOMAIN pout.value = AnalysisRecordFields
        /\ ZeroedCounts(pout.value)
        /\ OneWarning(pout.value, "MEDIUM")
        /\ pout.value.overall_compliance_score = 50
        /\ pout.value.risk_assessment = "MEDIUM"

\* A text with an open brace whose repair fails as well.
C10_Witness ==
    /\ op = "parse"
    /\ Count(ptext, LBrace) > Count(ptext, RBrace)
    /\ ~json_loads(FenceStrip(ptext)).ok
    /\ ~json_loads(RepairedText(ptext)).ok
    /\ pout.path = "default"

-----------------------------------------------------------------------------
(* C11..C20                                                                *)

\* C11: normalization is idempotent: the record _parse_response returned,
\* written as JSON and passed through _parse_response again, comes back
\* equal, whichever path the first pass took (first parse, repair, default).
C11_NormalizeIdempotent ==
    op = "reparse" =>
        /\ ~pagain.out.raised
        /\ DOMAIN pagain.out.value = DOMAIN pout.value
        /\ pagain.out.value = pout.value

\* The wrappers of a whole payload: none, a ```json fence, a bare ``` fence
PayloadWrappers ==
    { <<<<>>, <<>>>>,
      <<<<Backtick, Backtick, Backtick, JsonWord, Space>>,
        <<Space, Backtick, Backtick, Backtick>>>>,
      <<<<Backtick, Backtick, Backtick, Space>>,
        <<Space, Backtick, Backtick, Backtick>>>> }

\* text is w around a JSON object that holds every AnalysisRecord field
WrapsPayload(text, w) ==
    /\ Len(text) >= Len(w[1]) + Len(w[2])
    /\ StartsWith(text, w[1])
    /\ EndsWith(text, w[2])
    /\ LET payload == json_loads(SubSeq(text, Len(w[1]) + 1, Len(text) - Len(w[2])))
       IN  /\ payload.ok
           /\ payload.kind = "object"
           /\ AnalysisRecordFields \subseteq DOMAIN payload.dict

PayloadIn(text, w) ==
    json_loads(SubSeq(text, Len(w[1]) + 1, Len(text) - Len(w[2]))).dict

\* C12: a well-formed JSON object that holds every required field, bare or
\* inside a ```json or ``` fence, is returned as it is: the same keys, each
\* with the payload's value, no default put in.
C12_RoundTrip ==
    op = "parse" =>
        \A w \in PayloadWrappers :
            WrapsPayload(ptext, w) =>
                /\ ~pout.raised
                /\ DOMAIN pout.value = DOMAIN PayloadIn(ptext, w)
                /\ pout.value = PayloadIn(ptext, w)

\* A payload inside a ```json fence whose values are not the defaults.
C12_Witness ==
    /\ op = "parse"
    /\ StartsWith(ptext, <<Backtick, Backtick, Backtick, JsonWord>>)
    /\ \E w \in PayloadWrappers : w[1] # <<>> /\ WrapsPayload(ptext, w)
    /\ pout.path = "first"
    /\ pout.value.total_workers = 10
    /\ pout.value.overall_compliance_score = 30
    /\ pout.value.risk_assessment = "HIGH"

\* The warnings of r whose risk_level is `level`, in the order of the record
WarningsOf(r, level) ==
    SelectSeq(r.warnings, LAMBDA w : "risk_level" \in DOMAIN w /\ w.risk_level = level)

\* C13: prioritize_actions emits the critical violations (IMMEDIATE), then
\* the HIGH warnings (HIGH), then the MEDIUM warnings (MEDIUM), each group
\* in the order of the record, and the i-th item has priority i.
C13_PlanOrder ==
    op = "prioritize" =>
        LET critical == rrec.critical_violations
            high == WarningsOf(rrec, "HIGH")
            emitted == critical \o high \o WarningsOf(rrec, "MEDIUM")
        IN  /\ Len(plan) = Len(emitted)
            /\ \A i \in 1..Len(plan) :
                  /\ plan[i].priority = i
                  /\ plan[i].violation = emitted[i].violation
                  /\ plan[i].urgency =
                        IF i <= Len(critical) THEN "IMMEDIATE"
                        ELSE IF i <= Len(critical) + Len(high) THEN "HIGH"
                        ELSE "MEDIUM"

\* Two critical violations, then a MEDIUM warning written before a HIGH
\* one: the HIGH one is emitted third, the MEDIUM one fourth.
C13_Witness ==
    /\ op = "prioritize"
    /\ rrec.critical_violations = <<Finding("b", "CRITICAL"), Finding("a", "CRITICAL")>>
    /\ rrec.warnings = <<Finding("a", "MEDIUM"), Finding("b", "HIGH")>>
    /\ Len(plan) = 4
    /\ plan[1].violation = <<"b">>
    /\ plan[3].violation = <<"b">> /\ plan[3].urgency = "HIGH"
    /\ plan[4].violation = <<"a">> /\ plan[4].priority = 4

\* The text without the lexemes of `removed`
Without(text, removed) == SelectSeq(text, LAMBDA c : c \notin removed)

\* What the claim says of the parsing of one amount
ParsesAsClaimed(amount) ==
    /\ ~parse_rupee(amount).raised
    /\ amount = <<NotAString>> => parse_rupee(amount).value = Rat(0, 1)
    /\ amount # <<NotAString>> =>
          /\ parse_rupee(amount) = parse_rupee(Without(amount, {Rupee, Comma}))
          /\ (\E i \in 1..Len(amount) : amount[i] = NotANumber) =>
                 parse_rupee(amount).value = Rat(0, 1)
          /\ (\E i \in 1..Len(amount) : amount[i] \in {"lakh", "Lakh", "LAKH"}) =>
                 parse_rupee(amount).value
                     = RatMulInt(parse_rupee(Without(amount, {"lakh", "Lakh", "LAKH"})).value,
                                 100000)

\* C14: the currency parser never raises, for a str or another value: the
\* rupee sign and the commas are dropped, "lakh" in any letter case
\* multiplies by 100000, a text that is no numeral gives 0; the four
\* amounts of the spec give 500000, 150000, 0 and 0.
C14_ParseRupee ==
    op = "financial" =>
        LET fine == rrec.potential_fine_if_inspected
        IN  /\ ~fin.raised
            /\ fin.potential_fine = parse_rupee(fine).value
            /\ fin.compliance_cost = parse_rupee(rrec.estimated_compliance_cost).value
            /\ ParsesAsClaimed(fine)
            /\ ParsesAsClaimed(rrec.estimated_compliance_cost)
            /\ fine = <<Rupee, "5", Comma, "00", Comma, "000">> =>
                   fin.potential_fine = Rat(500000, 1)
            /\ fine = <<Rupee, "1", Dot, "5", Space, "lakh">> =>
                   fin.potential_fine = Rat(150000, 1)
            /\ fine = <<NotANumber>> => fin.potential_fine = Rat(0, 1)
            /\ fine = <<Rupee, "0">> => fin.potential_fine = Rat(0, 1)

\* "1.5 LAKH" with the rupee sign as the fine, a value that is no str as
\* the cost.
C14_Witness ==
    /\ op = "financial"
    /\ rrec.potential_fine_if_inspected = <<Rupee, "1", Dot, "5", Space, "LAKH">>
    /\ rrec.estimated_compliance_cost = <<NotAString>>
    /\ fin.potential_fine = Rat(150000, 1)
    /\ fin.compliance_cost = Rat(0, 1)

\* C15: potential_fine and compliance_cost are never negative, whatever
\* the two strings hold, a numeral with a leading minus sign included.
C15_AmountsNonNegative ==
    op = "financial" =>
        /\ ~fin.raised
        /\ fin.potential_fine.num >= 0
        /\ fin.compliance_cost.num >= 0

\* C16: potential_savings = potential_fine - compliance_cost;
\* roi_percentage = potential_savings * 100 / compliance_cost when the cost
\* is above 0, and 0 with no division made when the cost is 0; fine 250000
\* and cost 75000 give savings 175000.
C16_SavingsAndRoi ==
    op = "financial" =>
        LET fine == fin.potential_fine
            cost == fin.compliance_cost
            savings == fin.potential_savings
        IN  /\ ~fin.raised
            /\ savings.num * fine.den * cost.den
                   = (fine.num * cost.den - cost.num * fine.den) * savings.den
            /\ cost.num > 0 =>
                   RatDiv(fin.roi_percentage, Rat(100, 1)) = RatDiv(savings, cost)
            /\ cost.num = 0 => fin.roi_percentage = Rat(0, 1)
            /\ (fine = Rat(250000, 1) /\ cost = Rat(75000, 1)) =>
                   savings = Rat(175000, 1)

\* Fine 2,50,000 and cost 75,000: savings 175000, ROI 233.33 (700/3).
C16_Witness ==
    /\ op = "financial"
    /\ rrec.potential_fine_if_inspected = <<Rupee, "2", Comma, "50", Comma, "000">>
    /\ rrec.estimated_compliance_cost = <<Rupee, "75", Comma, "000">>
    /\ fin.potential_savings = Rat(175000, 1)
    /\ fin.roi_percentage = Rat(700, 3)

\* The file is absent, is no JSON, or holds a record that lacks a key
Malformed(file) ==
    \/ file.kind \in {"absent", "not_json"}
    \/ \E i \in 1..Len(file.items) : ~(StandardKeys \subseteq DOMAIN file.items[i])

\* C17: with a catalog source that is missing or malformed, BISDatabase()
\* does not raise and the catalog is empty from then on: no standard in
\* the list or the dict, none returned by get_all_standards or
\* get_standard.
C17_EmptyOnLoadError ==
    (op = "catalog" /\ Malformed(source)) =>
        /\ ~cout.raised
        /\ _standards = <<>>
        /\ DOMAIN _standards_dict = {}
        /\ query.name \in {"get_all_standards", "get_standard"} => query.items = <<>>

\* C18: the catalog is read-only after the load: whatever queries are made
\* and whatever a caller does to a list a query returned, the catalog
\* stays what _load_standards made of the file.
C18_CatalogReadOnly ==
    op = "catalog" =>
        /\ _standards = _load_standards(source).standards
        /\ _standards_dict = _load_standards(source).dict

\* C19: search_standards returns, in load order, the records that match
\* every filter given, category and severity compared without regard to
\* letter case, of the query and of the stored field.
C19_SearchIgnoresCase ==
    (op = "catalog" /\ query.name = "search_standards" /\ ~query.mutated) =>
        query.items
            = SelectSeq(_standards,
                        LAMBDA st :
                            /\ query.category # "None" =>
                                   Upper(st.category) = Upper(query.category)
                            /\ query.severity # "None" =>
                                   Upper(st.severity) = Upper(query.severity))

Called(name) == \E i \in 1..Len(calls) : calls[i] = name

\* The results of the three functions depend on the record alone, and the
\* report holds the same three results
C20_SameResults ==
    op = "derive" =>
        /\ Called("calculate_risk_score") => rout = calculate_risk_score(rrec)
        /\ Called("prioritize_actions") => plan = prioritize_actions(rrec)
        /\ Called("calculate_financial_impact") => fin = calculate_financial_impact(rrec)
        /\ Called("generate_safety_report") =>
              /\ report.analysis = rrec
              /\ Called("calculate_risk_score") => report.risk_assessment = rout
              /\ Called("prioritize_actions") => report.prioritized_actions = plan
              /\ Called("calculate_financial_impact") => report.financial_impact = fin

-----------------------------------------------------------------------------
(* C21..C30                                                                *)

\* The attempt ended in the handler with a message the code takes for a
\* timeout (line 134)
FailsTimeoutLike(o) == TryBody(o).raised /\ IsTimeoutLike(TryBody(o).msg)

\* The call is inside the wait that follows attempt k
InWaitAfter(k) == pc = "sleep" /\ k = Len(outcomes)

ClampedCompliance(rec) ==
    [rec EXCEPT !.overall_compliance_score = Max(0, Min(@, 100))]

\* C23: calculate_risk_score clamps overall_compliance_score to 0..100
\* before the multiplier: a score above 100 gives the risk_score of the
\* same record with 100, a score below 0 that of the same record with 0.
C23_ComplianceClamped ==
    op = "risk" =>
        rout.risk_score = calculate_risk_score(ClampedCompliance(rrec)).risk_score

\* The warnings, each one without a risk_level given the level LOW
LevelledLow(warnings) ==
    [i \in 1..Len(warnings) |->
        IF "risk_level" \in DOMAIN warnings[i] THEN warnings[i]
        ELSE [violation |-> warnings[i].violation, risk_level |-> "LOW"]]

\* C24: each warning adds 10 points if HIGH, 5 if MEDIUM and 0 in every
\* other case, a warning without a risk_level field included: such a
\* warning counts as one of level LOW does.
C24_WarningPoints ==
    op = "risk" =>
        rout.risk_score =
            calculate_risk_score([rrec EXCEPT !.warnings = LevelledLow(@)]).risk_score

\* The response has no candidates, or its text has fewer than 50 characters
BlockedOrShort(o) ==
    /\ o.kind = "response"
    /\ ~o.candidates \/ CharLen(ExtractText(o.parts)) < 50

\* C25: a response with no candidates, or whose text (the text parts in
\* order) has fewer than 50 characters, is a failure that is not
\* timeout-like: the text does not reach _parse_response, the attempt is
\* the last, no wait follows it, and the error record is returned with the
\* message of the check that failed.
C25_BlockedOrShortResponse ==
    \A k \in 1..Len(outcomes) :
        BlockedOrShort(outcomes[k]) =>
            /\ k = Len(outcomes)
            /\ pc = "done"
            /\ Len(sleeps) = k - 1
            /\ ~aout.raised
            /\ aout.kind = "error"
            /\ aout.value = _get_error_response(
                   IF outcomes[k].candidates
                   THEN <<"Empty or invalid response from Gemini">>
                   ELSE <<"Response blocked by safety filters">>)

\* A response of two characters that would parse, on the second attempt.
C25_Witness ==
    /\ pc = "done"
    /\ Len(outcomes) = 2
    /\ outcomes[2] = Response(TRUE, << <<LBrace, RBrace>> >>)
    /\ ~_parse_response(<<LBrace, RBrace>>).raised
    /\ aout.kind = "error"

\* The warning adds points to the risk score (lines 35-39)
AddsPoints(warning) == WarningPoints(<<warning>>) > 0

\* C27: the plan has one item per critical violation and one per warning,
\* so its length is |critical_violations| + |warnings|, and every warning
\* that adds points to the risk score, one without a risk_level field
\* included, is in the plan.
C27_PlanCoversRecord ==
    op = "prioritize" =>
        /\ Len(plan) = Len(rrec.critical_violations) + Len(rrec.warnings)
        /\ \A i \in 1..Len(rrec.warnings) :
              AddsPoints(rrec.warnings[i]) =>
                  \E j \in 1..Len(plan) :
                      /\ plan[j].urgency # "IMMEDIATE"
                      /\ plan[j].violation = rrec.warnings[i].violation

\* Every attempt before the k-th failed timeout-like
TimeoutsBefore(k) == \A j \in 1..(k - 1) : FailsTimeoutLike(outcomes[j])

\* C28: the last attempt made decides the outcome. The timeout record is
\* returned only if max_retries <= 0 (the loop body never runs) or all
\* max_retries attempts were made and the last failed timeout-like; a
\* success on attempt k after k-1 timeout-like failures returns the record
\* parsed on that attempt; a failure that is not timeout-like on attempt k
\* after k-1 timeout-like failures returns the error record.
C28_LastAttemptDecides ==
    /\ \A n \in -2..0 : ~LoopContinues(0, n)
    /\ pc = "done" =>
          /\ aout.kind = "timeout" =>
                \/ max_retries <= 0 /\ outcomes = <<>>
                \/ /\ Len(outcomes) = max_retries
                   /\ FailsTimeoutLike(Last(outcomes))
          /\ outcomes # <<>> =>
                /\ TimeoutsBefore(Len(outcomes))
                /\ ~TryBody(Last(outcomes)).raised =>
                      /\ aout = AnalyzeResult("parsed", TryBody(Last(outcomes)).value)
                      /\ aout.value
                             = _parse_response(ExtractText(Last(outcomes).parts)).value
                /\ (TryBody(Last(outcomes)).raised /\ ~FailsTimeoutLike(Last(outcomes))) =>
                      aout = AnalyzeResult("error",
                                 _get_error_response(TryBody(Last(outcomes)).msg))

\* A response that parses on the third attempt, after two timeouts.
C28_Witness ==
    /\ pc = "done"
    /\ Len(outcomes) = 3
    /\ FailsTimeoutLike(outcomes[1])
    /\ FailsTimeoutLike(outcomes[2])
    /\ ~TryBody(outcomes[3]).raised
    /\ aout.kind = "parsed"

\* The record is one of the three degraded ones: the timeout record, the
\* error record, the default record of a parse failure
Degraded ==
    \/ aout.kind \in {"timeout", "error"}
    \/ aout.kind = "parsed" /\ aout.value = _get_default_response

\* C29: each of the three degraded records, passed to
\* calculate_risk_score, gives a risk_score below 25, so risk_level LOW
\* and action_urgency WEEKLY, and prioritize_actions gives a plan that is
\* not empty and holds the record's explanatory warning.
C29_DegradedRecordsLow ==
    (op = "scored" /\ Degraded) =>
        /\ rrec \in {_get_timeout_response, _get_default_response}
                    \cup {_get_error_response(TryBody(o).msg) : o \in AttemptOutcomes}
        /\ rout.risk_score < 25
        /\ rout.risk_level = "LOW"
        /\ rout.action_urgency = "WEEKLY"
        /\ plan # <<>>
        /\ \E j \in 1..Len(plan) :
              /\ plan[j].violation = rrec.warnings[1].violation
              /\ plan[j].action = rrec.warnings[1].recommendation

\* The default record of a parse failure, scored 7, after a timeout whose
\* record would score 10.
C29_Witness ==
    /\ op = "scored"
    /\ Len(outcomes) = 2
    /\ FailsTimeoutLike(outcomes[1])
    /\ aout.kind = "parsed"
    /\ aout.value = _get_default_response
    /\ rout.risk_score = 7
    /\ calculate_risk_score(_get_timeout_response).risk_score = 10
    /\ Len(plan) = 1

\* The compliance score is in 0..100 and the non-compliant workers are
\* within the total
InRange(rec) ==
    /\ rec.overall_compliance_score \in 0..100
    /\ 0 <= rec.workers_non_compliant
    /\ rec.workers_non_compliant <= rec.total_workers

\* The records that differ from rec by one more critical violation, one
\* more HIGH or MEDIUM warning, a lower compliance score or more
\* non-compliant workers
Worsened(rec) ==
    {[rec EXCEPT !.critical_violations = Append(@, CriticalViolation)]}
    \cup {[rec EXCEPT !.warnings = Append(@, w)] :
             w \in {x \in WarningKinds : AddsPoints(x)}}
    \cup {[rec EXCEPT !.overall_compliance_score = s] :
             s \in {x \in ComplianceScores : x < rec.overall_compliance_score}}
    \cup {[rec EXCEPT !.workers_non_compliant = n] :
             n \in {x \in NonCompliantWorkers : x > rec.workers_non_compliant}}

\* How severe a risk_level is
Severity(risk_level) ==
    CASE risk_level = "LOW" -> 0
      [] risk_level = "MEDIUM" -> 1
      [] risk_level = "HIGH" -> 2
      [] risk_level = "CRITICAL" -> 3

\* C30: for a record with overall_compliance_score in 0..100 and
\* 0 <= workers_non_compliant <= total_workers, one more critical
\* violation, one more HIGH or MEDIUM warning, a lower compliance score or
\* more non-compliant workers never lowers risk_score and never moves
\* risk_level to a less severe level.
C30_Monotone ==
    (op = "risk" /\ InRange(rrec)) =>
        \A worse \in {r \in Worsened(rrec) : InRange(r)} :
            /\ calculate_risk_score(worse).risk_score >= rout.risk_score
            /\ Severity(calculate_risk_score(worse).risk_level)
                   >= Severity(rout.risk_level)

\* A record of level HIGH that each of the four changes moves to CRITICAL.
C30_Witness ==
    /\ op = "risk"
    /\ InRange(rrec)
    /\ rout.risk_level = "HIGH"
    /\ \E a, b, c, d \in {r \in Worsened(rrec) : InRange(r)} :
          /\ Len(a.critical_violations) > Len(rrec.critical_violations)
          /\ Len(b.warnings) > Len(rrec.warnings)
          /\ c.overall_compliance_score < rrec.overall_compliance_score
          /\ d.workers_non_compliant > rrec.workers_non_compliant
          /\ \A r \in {a, b, c, d} : calculate_risk_score(r).risk_level = "CRITICAL"

\* C26: a cancellation that arrives during a backoff wait ends the call at
\* once: the wait is not completed, no further request is made, no
\* exception is raised, and the timeout record is returned.
C26_CancelEndsBackoff ==
    cancel.arrived =>
        /\ pc = "done"
        /\ aout = AnalyzeResult("timeout", _get_timeout_response)
        /\ requests = cancel.requests
        /\ Len(sleeps) = cancel.sleeps

\* t holds the instance BISDatabase() returned to it
Ready(t) == threads[t].pc = "ready"

\* C21: when two or more threads call BISDatabase() for the first time at
\* once, the source is loaded exactly once, every caller is given the same
\* instance, and no caller reads an instance whose standards are not yet
\* fully loaded.
C21_LoadedOnceForAll ==
    op = "threads" =>
        /\ loads <= 1
        /\ (\E t \in Threads : Ready(t)) => loads = 1
        /\ \A t, u \in Threads :
              (Ready(t) /\ Ready(u)) => threads[t].ret = threads[u].ret
        /\ \A t \in Threads :
              threads[t].seen.done =>
                  threads[t].seen.items = _load_standards(source).standards

====
